---- MODULE Spec2Model ----
(***************************************************************************)
(* Model of the playback synchronisation, loop-repeat, recording and       *)
(* user-take playback logic of PitchAccentApp (src/pitch_accent_qt.py).    *)
(*                                                                         *)
(* Conventions                                                             *)
(*  - all times and positions are integers in milliseconds; the source     *)
(*    keeps seconds as floats and converts with /1000.0 and int(x*1000).   *)
(*  - the wall clock is kept relative: sinceSample is                      *)
(*    time.time() - self._last_playback_time, the only way the source      *)
(*    uses _last_playback_time (lines 1029, 1074).  It is capped at        *)
(*    AgeCap, beyond which the clamp to max_end hides any larger value.    *)
(*  - a pending QTimer is its remaining time; Tick lets 50 ms pass.  A     *)
(*    timer fires no earlier than its interval and before the next tick.   *)
(*  - every handler is one atomic step of the UI thread, written as a      *)
(*    function from the state record before it to the record after it.     *)
(*    The record carries two locals of the run: calls, the player and      *)
(*    timer calls made so far in program order, and op, which names the    *)
(*    handler.  Neither is kept in the state.                              *)
(*  - the labels and enabled states of the player's own buttons are not    *)
(*    modelled.                                                            *)
(***************************************************************************)
EXTENDS Integers, Sequences, FiniteSets, TLC

\* ------------------------------------------------------------------ bounds
\* Largest number of pending one-shot timers of one kind.
MaxShots == 1
\* Length of the loaded clip in poll intervals (ClipDuration below).
ClipTicks == 10
\* Background threads of one kind that can exist at the same time.
MaxThreads == 2
\* Frames the capture buffer holds (max_recording_time * 44100 in the source).
BufCap == 2
\* Longest pitch series the analyzer returns.
MaxSamples == 5
\* Frames of the capture buffers whose samples are followed one by one.
TrimFrames == 4
\* Longest pitch series whose frequencies are followed.
AxisSamples == 3
\* Ticks of the wall clock that user-take playback is followed for.
MaxNow == 2

\* ------------------------------------------------------- program constants
PollIntervalMs == 50
SelectionMarginMs == 350
ResyncAheadMs == 100
NudgeMs == 10
SeekWaitMs == 150
DebounceMs == 200
MaxDelayMs == 800
SnapMs == 100
GracePeriodMs == 300

ClipDuration == ClipTicks * PollIntervalMs
\* max_end = self._clip_duration - self._default_selection_margin - 0.05
MaxEnd == ClipDuration - SelectionMarginMs
AgeCap == MaxEnd + PollIntervalMs

Max(a, b) == IF a >= b THEN a ELSE b
Min(a, b) == IF a <= b THEN a ELSE b
\* max(0.0, min(x, max_end))
Clamp(x, hi) == Max(0, Min(x, hi))

PlayingStates == {"Playing", "Buffering"}
NoSeek == -1
NoTimer == -1

\* Texts of the loop-delay input: an integer literal or a text int() rejects.
DelayTexts ==
  { [isInt |-> TRUE, val |-> 0], [isInt |-> TRUE, val |-> 100] }

\* Texts the input can also hold: empty or non-numeric (int() raises), and a
\* negative integer.
InvalidDelayTexts ==
  { [isInt |-> FALSE, val |-> 0], [isInt |-> TRUE, val |-> 0 - PollIntervalMs],
    [isInt |-> TRUE, val |-> MaxDelayMs + PollIntervalMs] }

ZeroDelayText == [isInt |-> TRUE, val |-> 0]

\* Loop regions a user can have selected on the loaded clip.
LoopRegions == { <<0, MaxEnd>>, <<PollIntervalMs, MaxEnd - PollIntervalMs>> }

VARIABLES
  \* --- external player (vlc_player)
  vlcState, vlcTime, vlcSeek,
  \* --- timers of the UI thread
  pollTimer, _loop_delay_timer, endDelayShots, handleEndShots, settleShots,
  debounceShot, indicatorTimer,
  \* --- PitchAccentApp fields
  _play_pause_debounce, _is_looping, loop_delay_input, _expecting_seek,
  sinceSample, _last_playback_pos, _indicator_timer_active, pg_playback_line,
  _loop_start, _loop_end,
  \* --- recording (RecordingSession)
  recording, startResult, recPc, recBuf, takeOnDisk, uiQueue,
  record_btn_text, recording_indicator_visible,
  \* --- the audio library's single current stream (sd.rec / sd.play)
  sdStream,
  \* --- buttons shared by recording and user-take playback
  play_user_btn_enabled, loop_user_btn_enabled,
  \* --- user-take playback (PlaybackSession)
  user_playing, user_playback_paused, userPc, userKind,
  pendingStarts, pendingLoopTimers, user_playback_timer, stop_user_btn_enabled,
  \* --- the loop region widget and the mouse selection in progress
  pg_region, _selection_start,
  \* --- the pitch trace of the loaded clip and its plotted curves
  native_loaded, native_voiced, plotted_segments, pg_native_segments,
  trace_error,
  \* --- the wall clock (time.time()) and the positions of user-take playback
  now, user_playback_start_time, user_playback_pos, pg_user_playback_line,
  timer_duration, timer_is_loop,
  \* --- the samples of a capture buffer and the samples written from it
  recording_array, trimmed,
  \* --- the frequencies of the pitch trace and the text of the y-axis field
  native_pitch, y_axis_input,
  \* --- history: the inputs and calls of the last handler run that keeps
  \* one, and the last region edit
  lastRun, lastEdit

svars == << vlcState, vlcTime, vlcSeek, pollTimer, _loop_delay_timer,
            endDelayShots, handleEndShots, settleShots, debounceShot,
            indicatorTimer, _play_pause_debounce, _is_looping,
            loop_delay_input, _expecting_seek, sinceSample,
            _last_playback_pos, _indicator_timer_active, pg_playback_line,
            _loop_start, _loop_end >>

rvars == << recording, startResult, recPc, recBuf, takeOnDisk,
            uiQueue, record_btn_text, recording_indicator_visible >>

dvars == << sdStream >>

bvars == << play_user_btn_enabled, loop_user_btn_enabled >>

uvars == << user_playing, user_playback_paused, userPc, userKind,
            pendingStarts, pendingLoopTimers,
            user_playback_timer, stop_user_btn_enabled >>

hvars == << lastRun, lastEdit >>

gvars == << pg_region, _selection_start >>

tvars == << native_loaded, native_voiced, plotted_segments,
            pg_native_segments, trace_error >>

pvars == << recording_array, trimmed >>

yvars == << native_pitch, y_axis_input >>

cvars == << now, user_playback_start_time, user_playback_pos,
            pg_user_playback_line, timer_duration, timer_is_loop >>

vars == << svars, rvars, dvars, bvars, uvars, hvars, gvars, tvars, pvars,
          yvars, cvars >>

\* No handler is running.
NoOp == [name |-> "", cmd |-> FALSE, loopChanged |-> FALSE, grace |-> FALSE]

\* The scheduler state as one record, so that a handler can be written as
\* the sequence of its statements.
Self ==
  [ vlcState |-> vlcState, vlcTime |-> vlcTime, vlcSeek |-> vlcSeek,
    pollTimer |-> pollTimer, _loop_delay_timer |-> _loop_delay_timer,
    endDelayShots |-> endDelayShots, handleEndShots |-> handleEndShots,
    settleShots |-> settleShots, debounceShot |-> debounceShot,
    indicatorTimer |-> indicatorTimer,
    _play_pause_debounce |-> _play_pause_debounce,
    _is_looping |-> _is_looping, loop_delay_input |-> loop_delay_input,
    _expecting_seek |-> _expecting_seek, sinceSample |-> sinceSample,
    _last_playback_pos |-> _last_playback_pos,
    _indicator_timer_active |-> _indicator_timer_active,
    pg_playback_line |-> pg_playback_line,
    _loop_start |-> _loop_start, _loop_end |-> _loop_end,
    op |-> NoOp, calls |-> <<>> ]

CommitS(s) ==
  /\ vlcState' = s.vlcState
  /\ vlcTime' = s.vlcTime
  /\ vlcSeek' = s.vlcSeek
  /\ pollTimer' = s.pollTimer
  /\ _loop_delay_timer' = s._loop_delay_timer
  /\ endDelayShots' = s.endDelayShots
  /\ handleEndShots' = s.handleEndShots
  /\ settleShots' = s.settleShots
  /\ debounceShot' = s.debounceShot
  /\ indicatorTimer' = s.indicatorTimer
  /\ _play_pause_debounce' = s._play_pause_debounce
  /\ _is_looping' = s._is_looping
  /\ loop_delay_input' = s.loop_delay_input
  /\ _expecting_seek' = s._expecting_seek
  /\ sinceSample' = s.sinceSample
  /\ _last_playback_pos' = s._last_playback_pos
  /\ _indicator_timer_active' = s._indicator_timer_active
  /\ pg_playback_line' = s.pg_playback_line
  /\ _loop_start' = s._loop_start
  /\ _loop_end' = s._loop_end

Commit(s) ==
  /\ CommitS(s)
  /\ UNCHANGED << rvars, dvars, bvars, uvars, hvars, gvars, tvars, pvars, yvars, cvars >>

\* ------------------------------------------------------- locals of a run
\* A handler starts: the call list is empty and op names the handler.
\* cmd / loopChanged are copied from the delay timer whose callback it is.
Enter(s, name, cmd, loopChanged) ==
  [s EXCEPT !.calls = <<>>,
            !.op = [name |-> name, cmd |-> cmd, loopChanged |-> loopChanged,
                    grace |-> FALSE]]

Log(s, call, arg) ==
  [s EXCEPT !.calls = Append(@, [call |-> call, arg |-> arg,
                                 flag |-> s._expecting_seek])]

\* ------------------------------------------------- player and timer calls
\* self.vlc_player.get_time()
get_time(s) == s.vlcTime

\* self.vlc_player.pause(): a playing player becomes paused.
vlc_pause(s) ==
  Log([s EXCEPT !.vlcState = IF @ \in PlayingStates THEN "Paused" ELSE @],
      "pause", 0)

\* self.vlc_player.play(): an ended player starts again from the beginning.
vlc_play(s) ==
  Log([s EXCEPT !.vlcState = "Playing",
                !.vlcTime = IF s.vlcState = "Ended" THEN 0 ELSE @],
      "play", 0)

\* self.vlc_player.set_time(ms): the seek is requested; the player applies
\* it later (VlcApplySeek) and reports its old time until then.
vlc_set_time(s, ms) ==
  Log([s EXCEPT !.vlcSeek = ms], "set_time", ms)

\* self.vlc_poll_timer.start() / .stop()
poll_start(s) == Log([s EXCEPT !.pollTimer = PollIntervalMs], "poll_timer.start", 0)
poll_stop(s) == Log([s EXCEPT !.pollTimer = NoTimer], "poll_timer.stop", 0)

\* the grace flag left as it is
expect_seek_skipped(s) == s

\* self._expecting_seek = True; self._seek_grace_start = time.time()
expect_seek(s) == [s EXCEPT !._expecting_seek = TRUE]

\* int(self.loop_delay_input.text()) without the range check
delay_val_unchecked(s) ==
  IF s.loop_delay_input.isInt THEN s.loop_delay_input.val ELSE 0

\* int(self.loop_delay_input.text()) with the range check and the except
delay_val(s) ==
  IF s.loop_delay_input.isInt
  THEN IF s.loop_delay_input.val < 0 \/ s.loop_delay_input.val > MaxDelayMs
       THEN 0
       ELSE s.loop_delay_input.val
  ELSE 0

\* if self._loop_delay_timer is not None: stop it and forget it
cancel_loop_delay_timer(s) ==
  IF s._loop_delay_timer # <<>>
  THEN Log([s EXCEPT !._loop_delay_timer = <<>>], "loop_delay_timer.stop", 0)
  ELSE s

RECURSIVE MarkCmdShots(_)
MarkCmdShots(seq) ==
  IF seq = <<>> THEN <<>>
  ELSE << [Head(seq) EXCEPT !.cmd = TRUE] >> \o MarkCmdShots(Tail(seq))

RECURSIVE MarkLoopShots(_)
MarkLoopShots(seq) ==
  IF seq = <<>> THEN <<>>
  ELSE << [Head(seq) EXCEPT !.loopChanged = TRUE] >> \o MarkLoopShots(Tail(seq))

\* History only: a play/pause or stop command arrived while these one-shots
\* were pending.
MarkCmd(s) ==
  [s EXCEPT !.endDelayShots = MarkCmdShots(@)]

\* History only: the loop toggle changed while these delays were pending.
MarkLoopChanged(s) ==
  [s EXCEPT !.endDelayShots = MarkLoopShots(@),
            !._loop_delay_timer = MarkLoopShots(@)]

\* The player times t (ms) for which (t / 1000.0 + 0.01) * 1000 falls just
\* below t + 10 in double arithmetic, so that int() gives t + 9; listed for
\* the times up to 700 ms.
NudgeShort ==
  {11} \cup (18..19) \cup (59..60) \cup (71..75) \cup (86..91) \cup (102..106)

\* int((current_time + 0.01) * 1000) with current_time = get_time() / 1000.0
\* (lines 952, 961)
nudge_target(ms) ==
  IF ms \in NudgeShort THEN ms + NudgeMs - 1 ELSE ms + NudgeMs

\* --------------------------------------------------------------- handlers
\* toggle_play_pause (lines 931-966)
toggle_play_pause_body(s0) ==
  LET e  == MarkCmd(Enter(s0, "toggle_play_pause", FALSE, FALSE))
      s1 == cancel_loop_delay_timer(e)
  IN IF s1._play_pause_debounce
     THEN s1
     ELSE
       LET s2 == [s1 EXCEPT !._play_pause_debounce = TRUE]
           state == s2.vlcState
           \* pause at the current position, no seek
           p1 == poll_stop(vlc_pause(s2))
           paused == [p1 EXCEPT !.sinceSample = 0,
                                !._last_playback_pos = get_time(p1)]
           \* resume: seek to the loop start, or nudge by 10 ms
           current_time == get_time(s2)
           target == IF current_time < s2._loop_start
                        \/ current_time >= s2._loop_end
                     THEN s2._loop_start
                     ELSE nudge_target(current_time)
           resumed == poll_start(vlc_play(
                        vlc_set_time(expect_seek(s2), target)))
           s3 == IF state \in PlayingStates THEN paused ELSE resumed
       IN Log([s3 EXCEPT !.debounceShot = DebounceMs], "singleShot", DebounceMs)

\* _reset_play_pause_debounce (lines 968-969)
reset_play_pause_debounce_body(s0) ==
  LET e == Enter(s0, "_reset_play_pause_debounce", FALSE, FALSE)
  IN [e EXCEPT !._play_pause_debounce = FALSE, !.debounceShot = NoTimer]

\* _restart_loop that resumes the player at once instead of after the settle
\* period
restart_loop_no_settle(s, start_time) ==
  vlc_play(vlc_set_time(expect_seek(s), start_time))

\* _restart_loop (lines 1148-1153)
restart_loop(s, start_time) ==
  LET s1 == vlc_set_time(expect_seek(s), start_time)
  IN Log([s1 EXCEPT !.settleShots = Append(@, SeekWaitMs)],
         "singleShot", SeekWaitMs)

\* poll_vlc_state_and_overlay without the resync to a player that is ahead
poll_vlc_state_and_overlay_no_resync(s0) ==
  LET e == Enter(s0, "poll_vlc_state_and_overlay", FALSE, FALSE)
      state == e.vlcState
      current_time == get_time(e)
      d == delay_val(e)
      \* looping with a delay: pause, stop polling, (re)start the delay timer
      p1 == cancel_loop_delay_timer(poll_stop(vlc_pause(e)))
      delayed ==
        Log([p1 EXCEPT !._loop_delay_timer =
                         << [remaining |-> d, loopChanged |-> FALSE] >>],
            "loop_delay_timer.start", d)
      \* no delay or not looping: seek at once
      q1 == vlc_set_time(expect_seek(e), e._loop_start)
      immediate == IF ~e._is_looping THEN poll_stop(vlc_pause(q1)) ELSE q1
      s1 == IF state \in PlayingStates /\ current_time >= e._loop_end
            THEN IF e._is_looping /\ d > 0 THEN delayed ELSE immediate
            ELSE e
      \* indicator state for the smooth animation
      ms == get_time(s1)
      t == Clamp(IF ms >= 0 THEN ms ELSE 0, MaxEnd)
      interpolated_pos == Clamp(s1._last_playback_pos + s1.sinceSample, MaxEnd)
      should_update ==
        \/ s1._expecting_seek
        \/ state \notin PlayingStates
      s2 == [s1 EXCEPT !.op.grace = s1._expecting_seek,
                       !._expecting_seek = FALSE,
                       !.sinceSample = 0,
                       !._last_playback_pos =
                          IF should_update THEN t ELSE interpolated_pos]
      s3 == IF ~s2._indicator_timer_active
            THEN [s2 EXCEPT !.indicatorTimer = TRUE,
                            !._indicator_timer_active = TRUE]
            ELSE s2
  IN [s3 EXCEPT !.pg_playback_line = s3._last_playback_pos]

\* poll_vlc_state_and_overlay (lines 971-1064)
poll_vlc_state_and_overlay_body(s0) ==
  LET e == Enter(s0, "poll_vlc_state_and_overlay", FALSE, FALSE)
      state == e.vlcState
      current_time == get_time(e)
      d == delay_val(e)
      \* looping with a delay: pause, stop polling, (re)start the delay timer
      p1 == cancel_loop_delay_timer(poll_stop(vlc_pause(e)))
      delayed ==
        Log([p1 EXCEPT !._loop_delay_timer =
                         << [remaining |-> d, loopChanged |-> FALSE] >>],
            "loop_delay_timer.start", d)
      \* no delay or not looping: seek at once
      q1 == vlc_set_time(expect_seek(e), e._loop_start)
      immediate == IF ~e._is_looping THEN poll_stop(vlc_pause(q1)) ELSE q1
      s1 == IF state \in PlayingStates /\ current_time >= e._loop_end
            THEN IF e._is_looping /\ d > 0 THEN delayed ELSE immediate
            ELSE e
      \* indicator state for the smooth animation
      ms == get_time(s1)
      t == Clamp(IF ms >= 0 THEN ms ELSE 0, MaxEnd)
      interpolated_pos == Clamp(s1._last_playback_pos + s1.sinceSample, MaxEnd)
      should_update ==
        \/ s1._expecting_seek
        \/ state \notin PlayingStates
        \/ t > interpolated_pos + ResyncAheadMs
      s2 == [s1 EXCEPT !.op.grace = s1._expecting_seek,
                       !._expecting_seek = FALSE,
                       !.sinceSample = 0,
                       !._last_playback_pos =
                          IF should_update THEN t ELSE interpolated_pos]
      s3 == IF ~s2._indicator_timer_active
            THEN [s2 EXCEPT !.indicatorTimer = TRUE,
                            !._indicator_timer_active = TRUE]
            ELSE s2
  IN [s3 EXCEPT !.pg_playback_line = s3._last_playback_pos]

\* stop_native (lines 1079-1108)
stop_native_body(s0) ==
  LET e == MarkCmd(Enter(s0, "stop_native", FALSE, FALSE))
      s1 == cancel_loop_delay_timer(e)
      start_time == s1._loop_start
      s2 == vlc_pause(s1)
      s3 == vlc_set_time(expect_seek(s2), start_time)
      s4 == poll_stop(s3)
      s5 == Log([s4 EXCEPT !.indicatorTimer = FALSE,
                           !._indicator_timer_active = FALSE],
                "indicator_timer.stop", 0)
  IN [s5 EXCEPT !.pg_playback_line = start_time,
                !.sinceSample = 0,
                !._last_playback_pos = start_time]

\* the timeout of self._loop_delay_timer that forgets the timer and does
\* not restart the loop
restart_if_still_looping_dropped(s0) ==
  LET e == Enter(s0, "restart_if_still_looping", FALSE,
                 s0._loop_delay_timer[1].loopChanged)
  IN [e EXCEPT !._loop_delay_timer = <<>>]

\* restart_if_still_looping, the timeout of self._loop_delay_timer
\* (lines 997-1000)
restart_if_still_looping_body(s0) ==
  LET e == Enter(s0, "restart_if_still_looping", FALSE,
                 s0._loop_delay_timer[1].loopChanged)
      s1 == [e EXCEPT !._loop_delay_timer = <<>>]
  IN IF s1._is_looping THEN restart_loop(s1, s1._loop_start) ELSE s1

DropAt(seq, i) == SubSeq(seq, 1, i - 1) \o SubSeq(seq, i + 1, Len(seq))

\* lambda: self._restart_loop(start_time, delay_val), the one-shot started
\* by handle_end (line 1134)
end_delay_restart_body(s0, i) ==
  LET shot == s0.endDelayShots[i]
      e == Enter(s0, "end_delay_restart", shot.cmd, shot.loopChanged)
      s1 == [e EXCEPT !.endDelayShots = DropAt(@, i)]
  IN restart_loop(s1, shot.start_time)

\* handle_end, deferred by on_vlc_end_reached (lines 1122-1145)
handle_end_body(s0) ==
  LET e0 == Enter(s0, "handle_end", FALSE, FALSE)
      e == [e0 EXCEPT !.handleEndShots = @ - 1]
      start_time == e._loop_start
      d == delay_val(e)
      p1 == poll_stop(vlc_pause(e))
      delayed ==
        Log([p1 EXCEPT !.endDelayShots =
               Append(@, [start_time |-> start_time, remaining |-> d,
                          cmd |-> FALSE, loopChanged |-> FALSE])],
            "singleShot", d)
      q1 == vlc_set_time(e, start_time)
      immediate == IF e._is_looping
                   THEN poll_start(vlc_play(q1))
                   ELSE vlc_pause(q1)
  IN IF e._is_looping /\ d > 0 THEN delayed ELSE immediate

\* on_vlc_end_reached (lines 1120-1146): the player has reached the end of
\* the media and calls back; the handling is deferred with singleShot(0).
on_vlc_end_reached_body(s0) ==
  LET e == Enter(s0, "on_vlc_end_reached", FALSE, FALSE)
  IN Log([e EXCEPT !.vlcState = "Ended", !.handleEndShots = @ + 1],
         "singleShot", 0)

\* _actually_play_after_seek (lines 1155-1160)
actually_play_after_seek_body(s0, i) ==
  LET e == Enter(s0, "_actually_play_after_seek", FALSE, FALSE)
      s1 == [e EXCEPT !.settleShots = DropAt(@, i)]
  IN poll_start(vlc_play(s1))

\* on_loop_changed (lines 1567-1569); stateChanged fires on a change only
on_loop_changed_body(s0) ==
  LET e == MarkLoopChanged(Enter(s0, "on_loop_changed", FALSE, FALSE))
  IN [e EXCEPT !._is_looping = ~@]

\* _update_native_playback_indicator (lines 1066-1077), the 16 ms redraw
update_native_playback_indicator_body(s0) ==
  LET e == Enter(s0, "_update_native_playback_indicator", FALSE, FALSE)
      est_pos == Clamp(e._last_playback_pos + e.sinceSample, MaxEnd)
  IN IF ~e._indicator_timer_active \/ e.vlcState \notin PlayingStates
     THEN e
     ELSE [e EXCEPT !.pg_playback_line = est_pos]

\* ----------------------------------------------------- external player
\* Some timer has expired, or the player has an end-of-media event to
\* deliver.  The UI thread is responsive: what is due runs before the next
\* 50 ms have passed, in any order, and user commands can come in between.
TimerDue ==
  \/ pollTimer = 0
  \/ debounceShot = 0
  \/ handleEndShots > 0
  \/ \E i \in DOMAIN _loop_delay_timer : _loop_delay_timer[i].remaining = 0
  \/ \E i \in DOMAIN endDelayShots : endDelayShots[i].remaining = 0
  \/ \E i \in DOMAIN settleShots : settleShots[i] = 0
  \/ vlcState \in PlayingStates /\ vlcTime >= ClipDuration

\* The remaining time of a timer after 50 ms, for a timer, a sequence of
\* timer records and a sequence of remaining times.
Elapse(r) == IF r = NoTimer THEN NoTimer ELSE Max(0, r - PollIntervalMs)

RECURSIVE ElapseShots(_)
ElapseShots(seq) ==
  IF seq = <<>> THEN <<>>
  ELSE << [Head(seq) EXCEPT !.remaining = Elapse(@)] >> \o ElapseShots(Tail(seq))

RECURSIVE ElapseTimes(_)
ElapseTimes(seq) ==
  IF seq = <<>> THEN <<>>
  ELSE << Elapse(Head(seq)) >> \o ElapseTimes(Tail(seq))

\* 50 ms of wall-clock time pass: pending timers come closer, the sample
\* ages, and a playing player advances by the same amount or stalls.
Tick ==
  /\ ~TimerDue
  /\ \E adv \in {0, PollIntervalMs} :
       vlcTime' = IF vlcState \in PlayingStates
                  THEN Min(vlcTime + adv, ClipDuration)
                  ELSE vlcTime
  /\ pollTimer' = Elapse(pollTimer)
  /\ debounceShot' = Elapse(debounceShot)
  /\ _loop_delay_timer' = ElapseShots(_loop_delay_timer)
  /\ endDelayShots' = ElapseShots(endDelayShots)
  /\ settleShots' = ElapseTimes(settleShots)
  /\ sinceSample' = Min(sinceSample + PollIntervalMs, AgeCap)
  /\ UNCHANGED << vlcState, vlcSeek, handleEndShots, indicatorTimer,
                  _play_pause_debounce, _is_looping, loop_delay_input,
                  _expecting_seek, _last_playback_pos,
                  _indicator_timer_active, pg_playback_line,
                  _loop_start, _loop_end, rvars, dvars, bvars, uvars, hvars, gvars, tvars, pvars, yvars, cvars >>

\* The player applies the requested seek; from then on get_time() reports
\* the new position.
VlcApplySeek ==
  /\ vlcSeek # NoSeek
  /\ vlcState # "Ended"
  /\ vlcTime' = Clamp(vlcSeek, ClipDuration)
  /\ vlcSeek' = NoSeek
  /\ UNCHANGED << vlcState, pollTimer, _loop_delay_timer, endDelayShots,
                  handleEndShots, settleShots, debounceShot, indicatorTimer,
                  _play_pause_debounce, _is_looping, loop_delay_input,
                  _expecting_seek, sinceSample, _last_playback_pos,
                  _indicator_timer_active, pg_playback_line,
                  _loop_start, _loop_end, rvars, dvars, bvars, uvars, hvars, gvars, tvars, pvars, yvars, cvars >>

\* ---------------------------------------------------------------- actions
toggle_play_pause ==
  /\ Commit(toggle_play_pause_body(Self))

reset_play_pause_debounce ==
  /\ debounceShot = 0
  /\ Commit(reset_play_pause_debounce_body(Self))

\* timeout of self.vlc_poll_timer, a repeating timer
PollRun ==
  poll_vlc_state_and_overlay_body([Self EXCEPT !.pollTimer = PollIntervalMs])

poll_vlc_state_and_overlay ==
  /\ pollTimer = 0
  /\ Commit(PollRun)

stop_native ==
  /\ Commit(stop_native_body(Self))

restart_if_still_looping ==
  /\ _loop_delay_timer # <<>>
  /\ _loop_delay_timer[1].remaining = 0
  /\ Len(settleShots) < MaxShots
  /\ Commit(restart_if_still_looping_body(Self))

end_delay_restart_at(i) ==
  /\ endDelayShots[i].remaining = 0
  /\ Len(settleShots) < MaxShots
  /\ Commit(end_delay_restart_body(Self, i))

end_delay_restart == \E i \in DOMAIN endDelayShots : end_delay_restart_at(i)

handle_end ==
  /\ handleEndShots > 0
  /\ Len(endDelayShots) < MaxShots
  /\ Commit(handle_end_body(Self))

on_vlc_end_reached ==
  /\ vlcState \in PlayingStates
  /\ vlcTime >= ClipDuration
  /\ handleEndShots < MaxShots
  /\ Commit(on_vlc_end_reached_body(Self))

actually_play_after_seek ==
  \E i \in DOMAIN settleShots :
    /\ settleShots[i] = 0
    /\ Commit(actually_play_after_seek_body(Self, i))

on_loop_changed ==
  /\ Commit(on_loop_changed_body(Self))

\* the user edits the loop-delay input field; the field is edited once, away
\* from its initial text
edit_loop_delay ==
  \E txt \in DelayTexts :
    /\ txt # loop_delay_input
    /\ loop_delay_input = ZeroDelayText
    /\ Commit([Enter(Self, "edit_loop_delay", FALSE, FALSE)
                 EXCEPT !.loop_delay_input = txt])

\* _on_pg_region_changed (lines 1725-1736): the user drags the loop region;
\* the region is dragged once, away from the whole clip
on_pg_region_changed ==
  \E r \in LoopRegions :
    /\ r # << _loop_start, _loop_end >>
    /\ << _loop_start, _loop_end >> = << 0, MaxEnd >>
    /\ CommitS([Enter(Self, "_on_pg_region_changed", FALSE, FALSE)
                  EXCEPT !._loop_start = Clamp(r[1], MaxEnd),
                         !._loop_end = Clamp(r[2], MaxEnd)])
    /\ pg_region' = r
    /\ UNCHANGED << _selection_start, rvars, dvars, bvars, uvars, hvars,
                    tvars, pvars, yvars, cvars >>

\* ------------------------------------------------------------ pitch trace
\* start is None
NoStart == -1

\* if end - start > 1 (line 625): only curves of two points or more
keep_any_segment(start, end) == end - start > 0

keep_segment(start, end) == end - start > 1

\* The loop of redraw_native_waveform (lines 619-630) from index i on, with
\* the open segment's start and the segments emitted so far.  Indices are
\* the source's, from 0; a segment is the pair (start, end) of x[start:end].
RECURSIVE segment_scan(_, _, _, _)
segment_scan(voiced, i, start, out) ==
  IF i >= Len(voiced) THEN out
  ELSE IF voiced[i + 1] /\ start = NoStart
  THEN segment_scan(voiced, i + 1, i, out)
  ELSE IF (~voiced[i + 1] \/ i = Len(voiced) - 1) /\ start # NoStart
  THEN LET end == IF ~voiced[i + 1] THEN i ELSE i + 1
       IN segment_scan(voiced, i + 1, NoStart,
                       IF keep_segment(start, end)
                       THEN Append(out, << start, end >>) ELSE out)
  ELSE segment_scan(voiced, i + 1, start, out)

segment(voiced) == segment_scan(voiced, 0, NoStart, <<>>)

\* np.where(voiced)[0] from index i on
RECURSIVE np_where(_, _)
np_where(voiced, i) ==
  IF i >= Len(voiced) THEN <<>>
  ELSE (IF voiced[i + 1] THEN << i >> ELSE <<>>) \o np_where(voiced, i + 1)

\* np.where(np.diff(voiced_indices) > 1)[0] + 1 from position k on
RECURSIVE np_gaps(_, _)
np_gaps(idx, k) ==
  IF k + 1 >= Len(idx) THEN <<>>
  ELSE (IF idx[k + 2] - idx[k + 1] > 1 THEN << k + 1 >> ELSE <<>>)
         \o np_gaps(idx, k + 1)

\* for start, end in zip(segment_starts, segment_ends) (lines 887-890): the
\* index arrays voiced_indices[start:end] that are plotted
RECURSIVE np_plots(_, _, _, _)
np_plots(idx, starts, ends, k) ==
  IF k > Len(starts) THEN <<>>
  ELSE (IF ends[k] - starts[k] > 1
        THEN << SubSeq(idx, starts[k] + 1, ends[k]) >> ELSE <<>>)
         \o np_plots(idx, starts, ends, k + 1)

\* The index arithmetic with the last segment ending one index early
segment_np_short_end(voiced) ==
  LET voiced_indices == np_where(voiced, 0)
  IN IF Len(voiced_indices) > 0
     THEN LET segment_starts == << 0 >> \o np_gaps(voiced_indices, 0)
              segment_ends ==
                Tail(segment_starts) \o << Len(voiced_indices) - 1 >>
          IN np_plots(voiced_indices, segment_starts, segment_ends, 1)
     ELSE <<>>

\* The segmentation of process_audio (lines 879-890)
segment_np(voiced) ==
  LET voiced_indices == np_where(voiced, 0)
  IN IF Len(voiced_indices) > 0
     THEN LET segment_starts == << 0 >> \o np_gaps(voiced_indices, 0)
              segment_ends == Tail(segment_starts) \o << Len(voiced_indices) >>
          IN np_plots(voiced_indices, segment_starts, segment_ends, 1)
     ELSE <<>>

\* Voicing of the pitch series the analyzer can return, the empty one
\* included.
RECURSIVE VoicedArrays(_)
VoicedArrays(n) ==
  IF n = 0 THEN { <<>> }
  ELSE LET shorter == VoicedArrays(n - 1)
       IN shorter \cup { Append(v, b) : v \in { w \in shorter : Len(w) = n - 1 },
                                        b \in BOOLEAN }

Voicings == VoicedArrays(MaxSamples)

\* The clip the other specifications have loaded.
LoadedVoiced == << TRUE, TRUE, FALSE, TRUE >>

InitTrace ==
  /\ native_loaded = TRUE
  /\ native_voiced = LoadedVoiced
  /\ plotted_segments = segment_np(LoadedVoiced)
  /\ pg_native_segments = <<>>
  /\ trace_error = "none"

\* ------------------------------------------------------------------ spec
Threads == 1..MaxThreads

\* No take has been written to user_audio_path.
NoTake == [frames |-> 0, whole |-> TRUE]

\* The audio library keeps one current stream: sd.rec and sd.play stop the
\* previous one, sd.stop stops whichever is current.
NoStream == [kind |-> "none", owner |-> 0]

\* State after __init__ (lines 211-248) and the construction of the
\* controls (lines 427-438): nothing recorded, nothing playing.
InitRecording ==
  /\ recording = FALSE
  /\ startResult = "none"
  /\ recPc = [t \in Threads |-> "none"]
  /\ recBuf = [t \in Threads |-> 0]
  /\ sdStream = NoStream
  /\ takeOnDisk = NoTake
  /\ uiQueue = <<>>
  /\ record_btn_text = "Record"
  /\ recording_indicator_visible = FALSE

InitButtons ==
  /\ play_user_btn_enabled = FALSE
  /\ loop_user_btn_enabled = FALSE

InitUser ==
  /\ user_playing = FALSE
  /\ user_playback_paused = FALSE
  /\ userPc = [t \in Threads |-> "none"]
  /\ userKind = [t \in Threads |-> "none"]
  /\ pendingStarts = <<>>
  /\ pendingLoopTimers = <<>>
  /\ user_playback_timer = FALSE
  /\ stop_user_btn_enabled = FALSE

\* user_playback_start_time is not an attribute before the first playback
NoTime == -1

\* Duration of the take on disk, in ticks of the wall clock
TakeTicks == 2

\* __init__ (line 248) and the creation of the playback line (line 494)
InitClock ==
  /\ now = 0
  /\ user_playback_start_time = NoTime
  /\ user_playback_pos = 0
  /\ pg_user_playback_line = 0
  /\ timer_duration = 0
  /\ timer_is_loop = FALSE

\* State after __init__ and the load of a clip (process_audio, lines
\* 854-857): the player shows the first frame paused, looping is on, the
\* delay input holds "0", the loop region is the whole selectable clip.
InitScheduler ==
  /\ vlcState = "Paused"
  /\ vlcTime = 0
  /\ vlcSeek = NoSeek
  /\ pollTimer = NoTimer
  /\ _loop_delay_timer = <<>>
  /\ endDelayShots = <<>>
  /\ handleEndShots = 0
  /\ settleShots = <<>>
  /\ debounceShot = NoTimer
  /\ indicatorTimer = FALSE
  /\ _play_pause_debounce = FALSE
  /\ _is_looping = TRUE
  /\ loop_delay_input = [isInt |-> TRUE, val |-> 0]
  /\ _expecting_seek = FALSE
  /\ sinceSample = 0
  /\ _last_playback_pos = 0
  /\ _indicator_timer_active = FALSE
  /\ pg_playback_line = 0
  /\ _loop_start = 0
  /\ _loop_end = MaxEnd

\* No handler run has been recorded.
NoRun ==
  [ name |-> "none", text |-> [isInt |-> TRUE, val |-> 0], pos |-> 0,
    age |-> 0, polled |-> 0, state |-> "Paused", looping |-> TRUE,
    flag |-> FALSE, loop_end |-> 0, calls |-> <<>> ]

\* No region edit has been made.
NoEdit == [name |-> "none", a |-> 0, b |-> 0, prev |-> "none"]

InitHistory == lastRun = NoRun /\ lastEdit = NoEdit

\* No first click of a mouse selection is stored (hasattr is False).
NoSelection == -1

\* process_audio (lines 861-866, 894): the region widget spans the whole
\* selectable clip.
InitRegion ==
  /\ pg_region = << 0, MaxEnd >>
  /\ _selection_start = NoSelection

\* y_axis_input.setText("500") (line 400)
DefaultYMax == 500

\* np.ceil(max_pitch / 50) * 50 (line 924)
YStep == 50

\* max(1, min(1000, y_max)) (line 925)
YLow == 1

YHigh == 1000

\* voiced = pitch_values > 0 (line 850)
voiced_of(pitch) == [i \in 1..Len(pitch) |-> pitch[i] > 0]

\* np.max(self.native_pitch[self.native_voiced]) (line 923); the selection
\* is not empty
np_max(pitch, voiced) ==
  LET selected == { pitch[i] : i \in { k \in 1..Len(pitch) : voiced[k] } }
  IN CHOOSE m \in selected : \A x \in selected : x <= m

\* int(np.ceil(max_pitch / 50) * 50), clamped (lines 924-925)
y_max_of(max_pitch) ==
  LET y_max == ((max_pitch + YStep - 1) \div YStep) * YStep
  IN Max(YLow, Min(YHigh, y_max))

\* reset_y_axis (lines 921-929) as [y, raised]: the text it puts in the
\* y-axis field, or the exception np.max raises on an empty selection,
\* which leaves the field as it was.
reset_y_axis_body(loaded, pitch, voiced, y) ==
  IF loaded
  THEN IF \E k \in 1..Len(pitch) : voiced[k]
       THEN [y |-> y_max_of(np_max(pitch, voiced)), raised |-> "none"]
       ELSE [y |-> y, raised |-> "ValueError"]
  ELSE [y |-> DefaultYMax, raised |-> "none"]

\* The frequencies of the loaded clip, in Hz; 0 is an unvoiced sample.
LoadedPitch == << 120, 130, 0, 110 >>

InitAxis ==
  /\ native_pitch = LoadedPitch
  /\ y_axis_input = 150

\* No capture buffer is followed sample by sample.
InitSamples ==
  /\ recording_array = <<>>
  /\ trimmed = <<>>

Init ==
  /\ InitScheduler /\ InitRecording /\ InitButtons /\ InitUser
  /\ InitHistory /\ InitRegion /\ InitTrace /\ InitAxis /\ InitSamples
  /\ InitClock

Next ==
  \/ Tick
  \/ VlcApplySeek
  \/ toggle_play_pause
  \/ reset_play_pause_debounce
  \/ poll_vlc_state_and_overlay
  \/ stop_native
  \/ restart_if_still_looping
  \/ end_delay_restart
  \/ handle_end
  \/ on_vlc_end_reached
  \/ actually_play_after_seek
  \/ on_loop_changed
  \/ edit_loop_delay
  \/ on_pg_region_changed

Spec == Init /\ [][Next]_vars



\* ================================================================
\* The poll, the end-of-media handler and the redraw applied to sampled
\* states of the clock and the player
\* ================================================================
\* Times the player reports: none loaded (-1), inside the clip, lagging by
\* 10 ms, past max_end and the end of the media.
SampleTimes ==
  { -1, 0, PollIntervalMs, 2 * PollIntervalMs - NudgeMs, 2 * PollIntervalMs,
    MaxEnd, MaxEnd + PollIntervalMs, ClipDuration }

\* Stored positions and ages of the stored sample.
SamplePositions == { 0, PollIntervalMs, 2 * PollIntervalMs, MaxEnd }

SampleAges == { 0, PollIntervalMs, 2 * PollIntervalMs, AgeCap }

InitSample ==
  /\ vlcState \in {"Playing", "Buffering", "Paused", "Ended"}
  /\ vlcTime \in SampleTimes
  /\ vlcSeek = NoSeek
  /\ pollTimer = 0
  /\ _loop_delay_timer = <<>>
  /\ endDelayShots = <<>>
  /\ handleEndShots = IF vlcState = "Ended" THEN 1 ELSE 0
  /\ settleShots = <<>>
  /\ debounceShot = NoTimer
  /\ indicatorTimer \in BOOLEAN
  /\ _play_pause_debounce = FALSE
  /\ _is_looping \in BOOLEAN
  /\ loop_delay_input \in DelayTexts \cup InvalidDelayTexts
  /\ _expecting_seek \in BOOLEAN
  /\ sinceSample \in SampleAges
  /\ _last_playback_pos \in SamplePositions
  /\ _indicator_timer_active = indicatorTimer
  /\ pg_playback_line = _last_playback_pos
  /\ _loop_start = 0
  /\ _loop_end = MaxEnd
  /\ InitRecording /\ InitButtons /\ InitUser /\ InitHistory /\ InitRegion
  /\ InitTrace /\ InitAxis /\ InitSamples
  /\ InitClock

\* What a run started from: the delay text, the stored sample and its age,
\* the player's report and state, the flag, and the calls the run made.
RunOf(s) ==
  [ name |-> s.op.name, text |-> loop_delay_input, pos |-> _last_playback_pos,
    age |-> sinceSample, polled |-> vlcTime, state |-> vlcState,
    looping |-> _is_looping, flag |-> _expecting_seek,
    loop_end |-> _loop_end, calls |-> s.calls ]

Record(s) ==
  /\ CommitS(s)
  /\ lastRun' = RunOf(s)
  /\ UNCHANGED << rvars, dvars, bvars, uvars, gvars, tvars, pvars, yvars,
                  cvars, lastEdit >>

sample_poll ==
  /\ pollTimer = 0
  /\ Record(PollRun)

sample_handle_end ==
  /\ handleEndShots > 0
  /\ Record(handle_end_body(Self))

sample_redraw ==
  /\ indicatorTimer
  /\ Record(update_native_playback_indicator_body(Self))

\* 50 ms pass between two samples; the poll timer is due again.
sample_elapse ==
  /\ pollTimer = PollIntervalMs
  /\ Len(endDelayShots) + Len(_loop_delay_timer) = 0
  /\ \E adv \in {0, PollIntervalMs} :
       vlcTime' = IF vlcState \in PlayingStates
                  THEN Min(vlcTime + adv, ClipDuration)
                  ELSE vlcTime
  /\ pollTimer' = 0
  /\ sinceSample' = Min(sinceSample + PollIntervalMs, AgeCap)
  /\ UNCHANGED << vlcState, vlcSeek, _loop_delay_timer, endDelayShots,
                  handleEndShots, settleShots, debounceShot, indicatorTimer,
                  _play_pause_debounce, _is_looping, loop_delay_input,
                  _expecting_seek, _last_playback_pos,
                  _indicator_timer_active, pg_playback_line,
                  _loop_start, _loop_end, rvars, dvars, bvars, uvars, hvars, gvars, tvars, pvars, yvars, cvars >>

\* The delay timer started by a poll has run out.
sample_delay_fired ==
  /\ _loop_delay_timer # <<>>
  /\ Len(settleShots) < MaxShots
  /\ Record(restart_if_still_looping_body(Self))

\* The settle period after the seek of _restart_loop is over.
sample_settled ==
  /\ settleShots # <<>>
  /\ Record(actually_play_after_seek_body(Self, 1))

\* ================================================================
\* The play/pause and stop commands applied to sampled states
\* ================================================================
\* The states a command can find: the player playing with the poll timer
\* running, or not playing with the poll timer stopped and possibly the
\* delay timer of a poll or the settle one-shot of _restart_loop pending;
\* the debounce flag set or not.
InitCommand ==
  /\ vlcState \in {"Playing", "Paused", "Ended"}
  /\ vlcTime \in SampleTimes
  /\ vlcSeek = NoSeek
  /\ pollTimer = IF vlcState = "Playing" THEN PollIntervalMs ELSE NoTimer
  /\ _loop_delay_timer
       \in {<<>>} \cup
           (IF vlcState = "Paused"
            THEN { << [remaining |-> 2 * PollIntervalMs,
                       loopChanged |-> FALSE] >> }
            ELSE {})
  /\ endDelayShots = <<>>
  /\ handleEndShots = 0
  /\ settleShots
       \in {<<>>} \cup
           (IF vlcState = "Paused" /\ vlcTime >= 0 /\ _loop_delay_timer = <<>>
            THEN { << SeekWaitMs >> }
            ELSE {})
  /\ _play_pause_debounce \in BOOLEAN
  /\ debounceShot = IF _play_pause_debounce THEN DebounceMs ELSE NoTimer
  /\ indicatorTimer \in BOOLEAN
  /\ _is_looping \in BOOLEAN
  /\ loop_delay_input = [isInt |-> TRUE, val |-> 2 * PollIntervalMs]
  /\ _expecting_seek \in BOOLEAN
  /\ sinceSample \in {0, PollIntervalMs}
  /\ _last_playback_pos \in SamplePositions
  /\ _indicator_timer_active = indicatorTimer
  /\ pg_playback_line = _last_playback_pos
  /\ \E r \in LoopRegions : _loop_start = r[1] /\ _loop_end = r[2]
  /\ pg_region = << _loop_start, _loop_end >>
  /\ _selection_start = NoSelection
  /\ InitRecording /\ InitButtons /\ InitUser /\ InitHistory
  /\ InitTrace /\ InitAxis /\ InitSamples
  /\ InitClock

\* the user presses the play/pause button
command_toggle ==
  /\ Record(toggle_play_pause_body(Self))

\* the user presses the stop button
command_stop ==
  /\ Record(stop_native_body(Self))

\* the debounce one-shot of an accepted play/pause command fires
command_debounce_over ==
  /\ debounceShot # NoTimer
  /\ Record(reset_play_pause_debounce_body(Self))

\* the settle one-shot of _restart_loop fires
command_settled ==
  /\ settleShots # <<>>
  /\ Record(actually_play_after_seek_body(Self, 1))

NextCommand ==
  \/ command_toggle
  \/ command_stop
  \/ command_debounce_over
  \/ command_settled

SpecCommand == InitCommand /\ [][NextCommand]_vars

NextSample ==
  \/ sample_poll
  \/ sample_handle_end
  \/ sample_redraw
  \/ sample_elapse
  \/ sample_delay_fired
  \/ sample_settled

SpecSample == InitSample /\ [][NextSample]_vars

\* The player plays with looping on, shortly before or at the loop end, a
\* poll is due, and the delay input holds any of the texts.
InitLoop ==
  /\ vlcState = "Playing"
  /\ vlcTime \in {MaxEnd - PollIntervalMs, MaxEnd}
  /\ vlcSeek = NoSeek
  /\ pollTimer = 0
  /\ _loop_delay_timer = <<>>
  /\ endDelayShots = <<>>
  /\ handleEndShots = 0
  /\ settleShots = <<>>
  /\ debounceShot = NoTimer
  /\ indicatorTimer = TRUE
  /\ _play_pause_debounce = FALSE
  /\ _is_looping = TRUE
  /\ loop_delay_input \in DelayTexts \cup InvalidDelayTexts
  /\ _expecting_seek \in BOOLEAN
  /\ sinceSample = PollIntervalMs
  /\ _last_playback_pos = MaxEnd - PollIntervalMs
  /\ _indicator_timer_active = TRUE
  /\ pg_playback_line = _last_playback_pos
  /\ _loop_start = 0
  /\ _loop_end = MaxEnd
  /\ InitRecording /\ InitButtons /\ InitUser /\ InitHistory /\ InitRegion
  /\ InitTrace /\ InitAxis /\ InitSamples
  /\ InitClock

\* Playback left to itself: polls, redraws, the delay and settle timers and
\* the player, which applies a requested seek.  No user command and no
\* end of the media is part of these behaviours.
NextLoop ==
  \/ sample_poll
  \/ sample_redraw
  \/ sample_elapse
  \/ sample_delay_fired
  \/ sample_settled
  \/ VlcApplySeek

\* The Qt event loop keeps running: a timer that is due fires (the poll
\* timer, the delay timer of the poll, the settle one-shot); the player
\* applies a seek that stays requested.
LoopFairness ==
  /\ WF_vars(sample_poll)
  /\ WF_vars(sample_delay_fired)
  /\ WF_vars(sample_settled)
  /\ WF_vars(VlcApplySeek)

SpecLoopLive == InitLoop /\ [][NextLoop]_vars /\ LoopFairness


\* ================================================================
\* Loop region edits (on_select, on_mouse_clicked, _on_pg_region_changed,
\* clear_selection) and the redraw they trigger
\* ================================================================
\* Positions an edit can name: before the clip, inside it in steps of
\* 50 ms, and past max_end.
EditPoints ==
  { k * PollIntervalMs : k \in -1 .. (MaxEnd \div PollIntervalMs) + 1 }

\* Positions the lines of the region widget can be dragged to; the widget
\* keeps them within its bounds (0, max_end).
DragPoints == { x \in EditPoints : 0 <= x /\ x <= MaxEnd }

GSelf ==
  [ _loop_start |-> _loop_start, _loop_end |-> _loop_end,
    pg_region |-> pg_region, _selection_start |-> _selection_start,
    user_playback_timer |-> user_playback_timer,
    pg_playback_line |-> pg_playback_line,
    pg_native_segments |-> pg_native_segments, raised |-> "none" ]

GCommit(g, name, a, b) ==
  /\ _loop_start' = g._loop_start
  /\ _loop_end' = g._loop_end
  /\ pg_region' = g.pg_region
  /\ _selection_start' = g._selection_start
  /\ user_playback_timer' = g.user_playback_timer
  /\ pg_playback_line' = g.pg_playback_line
  /\ pg_native_segments' = g.pg_native_segments
  /\ trace_error' = g.raised
  /\ lastEdit' = [name |-> name, a |-> a, b |-> b, prev |-> lastEdit.name]
  /\ UNCHANGED << vlcState, vlcTime, vlcSeek, pollTimer, _loop_delay_timer,
                  endDelayShots, handleEndShots, settleShots, debounceShot,
                  indicatorTimer, _play_pause_debounce, _is_looping,
                  loop_delay_input, _expecting_seek, sinceSample,
                  _last_playback_pos, _indicator_timer_active,
                  rvars, dvars, bvars, user_playing, user_playback_paused,
                  userPc, userKind, pendingStarts, pendingLoopTimers,
                  stop_user_btn_enabled, lastRun, native_loaded,
                  native_voiced, plotted_segments, pvars, yvars, cvars >>

\* self.pg_region.getRegion(): the two lines in ascending order
pg_getRegion(g) ==
  << Min(g.pg_region[1], g.pg_region[2]), Max(g.pg_region[1], g.pg_region[2]) >>

\* _on_pg_region_changed (lines 1725-1736), the slot of sigRegionChanged
on_pg_region_changed_body(g) ==
  LET region == pg_getRegion(g)
      start == Clamp(region[1], MaxEnd)
      end == Clamp(region[2], MaxEnd)
      g1 == IF start # region[1] \/ end # region[2]
            THEN [g EXCEPT !.pg_region = << start, end >>]
            ELSE g
  IN [g1 EXCEPT !._loop_start = start, !._loop_end = end]

\* self.pg_region.setRegion(rgn): nothing happens when the lines already
\* have these values; otherwise the lines move, kept within the widget's
\* bounds, and sigRegionChanged runs the slot.
pg_setRegion(g, rgn) ==
  IF g.pg_region = rgn
  THEN g
  ELSE on_pg_region_changed_body(
         [g EXCEPT !.pg_region = << Clamp(rgn[1], MaxEnd),
                                    Clamp(rgn[2], MaxEnd) >>])

\* redraw_waveform (lines 664-667): redraw_native_waveform (lines 607-636)
\* stops the user playback-line timer, plots the curves again, puts the
\* region widget back to the whole clip and the playback line to 0.  max_end
\* is assigned under len(x) > 0 only (lines 631-634), so its use at line 635
\* raises UnboundLocalError when the series is empty.
redraw_waveform(g) ==
  LET g1 == [g EXCEPT !.user_playback_timer = FALSE]
      g2 == [g1 EXCEPT !.pg_native_segments = segment(native_voiced)]
      g3 == pg_setRegion(g2, << 0, MaxEnd >>)
  IN IF ~native_loaded THEN g1
     ELSE IF Len(native_voiced) = 0
     THEN [g2 EXCEPT !.raised = "UnboundLocalError"]
     ELSE [g3 EXCEPT !.pg_playback_line = 0]

\* on_select (lines 586-598)
on_select_body(g, xmin, xmax) ==
  LET xmin1 == IF xmin < SnapMs THEN 0 ELSE xmin
      xmax1 == IF xmax > MaxEnd THEN MaxEnd ELSE xmax
      g1 == [g EXCEPT !._loop_start = Max(0, xmin1),
                      !._loop_end = Min(MaxEnd, xmax1)]
  IN redraw_waveform(g1)

\* on_mouse_clicked, left button (lines 1677-1717)
on_mouse_clicked_left(g, pos) ==
  LET x == Clamp(pos, MaxEnd)
  IN IF g._selection_start = NoSelection
     THEN [g EXCEPT !._selection_start = x]
     ELSE LET start == Min(g._selection_start, x)
              end == Max(g._selection_start, x)
              g1 == pg_setRegion(g, << start, end >>)
          IN [g1 EXCEPT !._selection_start = NoSelection]

\* on_mouse_clicked, right button (lines 1718-1723)
on_mouse_clicked_right(g) == [g EXCEPT !._selection_start = NoSelection]

\* clear_selection that leaves the stored bounds to the widget's signal
clear_selection_widget_only(g) ==
  redraw_waveform(pg_setRegion(g, << 0, MaxEnd >>))

\* clear_selection (lines 1490-1513)
clear_selection_body(g) ==
  LET g1 == [g EXCEPT !._loop_start = 0, !._loop_end = MaxEnd]
      g2 == pg_setRegion(g1, << 0, MaxEnd >>)
  IN redraw_waveform(g2)

on_select_at(xmin, xmax) ==
  /\ GCommit(on_select_body(GSelf, xmin, xmax), "on_select", xmin, xmax)

on_select ==
  \E xmin, xmax \in EditPoints : on_select_at(xmin, xmax)

on_mouse_clicked_at(pos) ==
  /\ GCommit(on_mouse_clicked_left(GSelf, pos), "on_mouse_clicked",
             _selection_start, pos)

on_mouse_clicked ==
  \E pos \in EditPoints : on_mouse_clicked_at(pos)

on_mouse_right_clicked ==
  /\ _selection_start # NoSelection
  /\ GCommit(on_mouse_clicked_right(GSelf), "on_mouse_right_clicked",
             _selection_start, 0)

\* The user drags the region widget or one of its lines; the widget emits
\* sigRegionChanged.
region_dragged_at(a, b) ==
  /\ << a, b >> # pg_region
  /\ GCommit(on_pg_region_changed_body([GSelf EXCEPT !.pg_region = << a, b >>]),
             "_on_pg_region_changed", a, b)

region_dragged ==
  \E a, b \in DragPoints : region_dragged_at(a, b)

clear_selection ==
  /\ GCommit(clear_selection_body(GSelf), "clear_selection", 0, 0)

NextRegion ==
  \/ on_select
  \/ on_mouse_clicked
  \/ on_mouse_right_clicked
  \/ region_dragged
  \/ clear_selection

SpecRegion == Init /\ [][NextRegion]_vars

\* ================================================================
\* Loading a clip: process_audio and the redraw of its pitch curves
\* ================================================================
\* process_audio (lines 843-898) when the analyzer returns a series voiced
\* as v.  pitch_times[-1] (line 854) raises IndexError on an empty series,
\* after the arrays were stored (lines 851-853); reset_y_axis (line 923)
\* takes np.max of the voiced values and raises ValueError when there are
\* none.
process_audio_at(v) ==
  /\ user_playback_timer' = FALSE
  /\ native_loaded' = TRUE
  /\ native_voiced' = v
  /\ native_pitch' = [i \in 1..Len(v) |-> IF v[i] THEN LoadedPitch[1] ELSE 0]
  /\ IF Len(v) = 0
     THEN /\ trace_error' = "IndexError"
          /\ UNCHANGED << _loop_start, _loop_end, pg_region, pg_playback_line,
                          plotted_segments, y_axis_input >>
     ELSE /\ _loop_start' = 0
          /\ _loop_end' = MaxEnd
          /\ pg_region' = << 0, MaxEnd >>
          /\ plotted_segments' = segment_np(v)
          /\ pg_playback_line' = 0
          /\ LET r == reset_y_axis_body(TRUE, native_pitch', v, y_axis_input)
             IN /\ y_axis_input' = r.y
                /\ trace_error' = r.raised
  /\ lastEdit' = [name |-> "process_audio", a |-> 0, b |-> 0,
                  prev |-> lastEdit.name]
  /\ UNCHANGED << vlcState, vlcTime, vlcSeek, pollTimer, _loop_delay_timer,
                  endDelayShots, handleEndShots, settleShots, debounceShot,
                  indicatorTimer, _play_pause_debounce, _is_looping,
                  loop_delay_input, _expecting_seek, sinceSample,
                  _last_playback_pos, _indicator_timer_active,
                  rvars, dvars, bvars, user_playing, user_playback_paused,
                  userPc, userKind, pendingStarts, pendingLoopTimers,
                  stop_user_btn_enabled, lastRun, _selection_start,
                  pg_native_segments, pvars, cvars >>

process_audio ==
  \E v \in Voicings : process_audio_at(v)

\* redraw_waveform calls redraw_native_waveform (line 666)
redraw_native_waveform ==
  /\ GCommit(redraw_waveform(GSelf), "redraw_native_waveform", 0, 0)

NextTrace ==
  \/ process_audio
  \/ redraw_native_waveform

SpecTrace == Init /\ [][NextTrace]_vars

\* ================================================================
\* The resting y-axis maximum (reset_y_axis), frequency by frequency
\* ================================================================
\* Frequencies of a pitch series, in Hz; 0 is an unvoiced sample.
PitchValues == { 0, 40, 50, 130, 990, 1200 }

RECURSIVE PitchArrays(_)
PitchArrays(n) ==
  IF n = 0 THEN { <<>> }
  ELSE LET shorter == PitchArrays(n - 1)
       IN shorter \cup { Append(p, f) : p \in { w \in shorter : Len(w) = n - 1 },
                                        f \in PitchValues }

\* No clip is loaded (the pitch attributes do not exist), or process_audio
\* has stored the series of a clip and is about to call reset_y_axis.
InitYAxis ==
  /\ InitScheduler /\ InitRecording /\ InitButtons /\ InitUser
  /\ InitHistory /\ InitRegion /\ InitSamples /\ InitClock
  /\ native_loaded \in BOOLEAN
  /\ native_pitch \in PitchArrays(AxisSamples)
  /\ native_loaded => Len(native_pitch) > 0
  /\ ~native_loaded => native_pitch = <<>>
  /\ native_voiced = voiced_of(native_pitch)
  /\ plotted_segments = segment_np(native_voiced)
  /\ pg_native_segments = <<>>
  /\ trace_error = "none"
  /\ y_axis_input \in { DefaultYMax, YStep }

\* reset_y_axis (lines 921-929), called by process_audio (line 898) and by
\* the "reset y axis" button (line 406)
reset_y_axis ==
  /\ LET r == reset_y_axis_body(native_loaded, native_pitch, native_voiced,
                                y_axis_input)
     IN /\ y_axis_input' = r.y
        /\ trace_error' = r.raised
  /\ UNCHANGED << native_loaded, native_voiced, plotted_segments,
                  pg_native_segments, native_pitch,
                  svars, rvars, dvars, bvars, uvars, hvars, gvars, pvars,
                  cvars >>

NextYAxis == reset_y_axis

SpecYAxis == InitYAxis /\ [][NextYAxis]_vars

\* ================================================================
\* Recording (start_recording, _record_thread, stop_recording)
\* ================================================================
RSelf ==
  [ recording |-> recording, startResult |-> startResult, recPc |-> recPc,
    recBuf |-> recBuf, record_btn_text |-> record_btn_text,
    recording_indicator_visible |-> recording_indicator_visible,
    play_user_btn_enabled |-> play_user_btn_enabled,
    loop_user_btn_enabled |-> loop_user_btn_enabled ]

RCommit(r) ==
  /\ recording' = r.recording
  /\ startResult' = r.startResult
  /\ recPc' = r.recPc
  /\ recBuf' = r.recBuf
  /\ record_btn_text' = r.record_btn_text
  /\ recording_indicator_visible' = r.recording_indicator_visible
  /\ play_user_btn_enabled' = r.play_user_btn_enabled
  /\ loop_user_btn_enabled' = r.loop_user_btn_enabled
  /\ UNCHANGED << sdStream, takeOnDisk, uiQueue, svars, uvars, hvars, gvars, tvars, pvars, yvars, cvars >>

\* Thread ids not in use by a capture thread.
FreeRecThreads == { t \in Threads : recPc[t] = "none" }

\* start_recording without its guard on self.recording
start_recording_unguarded(r, t, spawned) ==
  [r EXCEPT !.startResult = "Started",
            !.recording = TRUE,
            !.record_btn_text = "Stop Recording",
            !.play_user_btn_enabled = FALSE,
            !.loop_user_btn_enabled = FALSE,
            !.recording_indicator_visible = TRUE,
            !.recPc[t] = IF spawned THEN "rec" ELSE @]

\* start_recording (lines 1169-1182).  spawned says whether
\* threading.Thread(...).start() succeeded; if it raises, the exception is
\* printed and nothing else is done.  startResult is the outcome of the call
\* as the caller of RecordingSession.start sees it.
start_recording_body(r, t, spawned) ==
  IF r.recording
  THEN [r EXCEPT !.startResult = "AlreadyRecording"]
  ELSE [r EXCEPT !.startResult = "Started",
                 !.recording = TRUE,
                 !.record_btn_text = "Stop Recording",
                 !.play_user_btn_enabled = FALSE,
                 !.loop_user_btn_enabled = FALSE,
                 !.recording_indicator_visible = TRUE,
                 !.recPc[t] = IF spawned THEN "rec" ELSE @]

\* stop_recording (lines 1242-1245)
stop_recording_body(r) ==
  [r EXCEPT !.recording = FALSE, !.recording_indicator_visible = FALSE]

start_recording ==
  \E spawned \in BOOLEAN :
    /\ FreeRecThreads # {}
    /\ RCommit(start_recording_body(
                 RSelf, CHOOSE t \in FreeRecThreads : TRUE, spawned))

stop_recording ==
  /\ RCommit(stop_recording_body(RSelf))

\* toggle_recording (lines 1162-1167)
toggle_recording ==
  \E spawned \in BOOLEAN :
    /\ FreeRecThreads # {}
    /\ IF recording
       THEN RCommit(stop_recording_body(RSelf))
       ELSE RCommit(start_recording_body(
                      RSelf, CHOOSE t \in FreeRecThreads : TRUE, spawned))

\* _record_thread, sd.rec (lines 1188-1196): the capture into a fresh buffer
\* starts, or the device raises and the thread goes to its handlers.
record_thread_rec(t) ==
  /\ recPc[t] = "rec"
  /\ \E ok \in BOOLEAN :
       IF ok
       THEN /\ recPc' = [recPc EXCEPT ![t] = "loop"]
            /\ recBuf' = [recBuf EXCEPT ![t] = 0]
            /\ sdStream' = [kind |-> "in", owner |-> t]
       ELSE /\ recPc' = [recPc EXCEPT ![t] = "finally"]
            /\ UNCHANGED << recBuf, sdStream >>
  /\ UNCHANGED << recording, startResult, takeOnDisk, uiQueue,
                  record_btn_text, recording_indicator_visible,
                  svars, bvars, uvars, hvars, gvars, tvars, pvars, yvars, cvars >>

\* The input device delivers a frame into the buffer of the running capture.
device_capture ==
  /\ sdStream.kind = "in"
  /\ recBuf[sdStream.owner] < BufCap
  /\ recBuf' = [recBuf EXCEPT ![sdStream.owner] = @ + 1]
  /\ UNCHANGED << recording, startResult, recPc, sdStream, takeOnDisk,
                  uiQueue, record_btn_text, recording_indicator_visible,
                  svars, bvars, uvars, hvars, gvars, tvars, pvars, yvars, cvars >>

\* _record_thread, while self.recording: time.sleep(0.1); sd.stop();
\* sd.wait() (lines 1198-1202): the loop is left when the flag is seen
\* False, and the input stream is stopped.
record_thread_loop(t) ==
  /\ recPc[t] = "loop"
  /\ ~recording
  /\ recPc' = [recPc EXCEPT ![t] = "save"]
  /\ sdStream' = NoStream
  /\ UNCHANGED << recording, startResult, recBuf, takeOnDisk, uiQueue,
                  record_btn_text, recording_indicator_visible,
                  svars, bvars, uvars, hvars, gvars, tvars, pvars, yvars, cvars >>

\* Frames kept by the trim (lines 1206-1212).  Captured frames count as
\* above the silence threshold and the unfilled rest of the buffer as below;
\* with nothing above the threshold the whole buffer is kept.
trimmed_frames(n) == IF n > 0 THEN n ELSE BufCap

\* _record_thread, trim and wavfile.write (lines 1204-1224): the take is
\* written, or the write raises after the file was opened for writing.
record_thread_save(t) ==
  /\ recPc[t] = "save"
  /\ \E ok \in BOOLEAN :
       takeOnDisk' = [frames |-> IF ok THEN trimmed_frames(recBuf[t]) ELSE 0,
                      whole |-> ok]
  /\ recPc' = [recPc EXCEPT ![t] = "notify"]
  /\ UNCHANGED << recording, startResult, recBuf, sdStream, uiQueue,
                  record_btn_text, recording_indicator_visible,
                  svars, bvars, uvars, hvars, gvars, tvars, pvars, yvars, cvars >>

\* _record_thread with the re-analysis scheduled a second time
record_thread_notify_twice(t) ==
  /\ recPc[t] = "notify"
  /\ Len(uiQueue) + 3 <= 3 * MaxThreads
  /\ uiQueue' = uiQueue \o << "process_user_audio", "process_user_audio",
                             "enable_loop_user" >>
  /\ recPc' = [recPc EXCEPT ![t] = "finally"]
  /\ UNCHANGED << recording, startResult, recBuf, sdStream, takeOnDisk,
                  record_btn_text, recording_indicator_visible,
                  svars, bvars, uvars, hvars, gvars, tvars, pvars, yvars, cvars >>

\* _record_thread, the three QTimer.singleShot(0, ...) (lines 1225-1228)
record_thread_notify(t) ==
  /\ recPc[t] = "notify"
  /\ Len(uiQueue) + 3 <= 3 * MaxThreads
  /\ uiQueue' = uiQueue \o << "process_user_audio", "enable_play_user",
                             "enable_loop_user" >>
  /\ recPc' = [recPc EXCEPT ![t] = "finally"]
  /\ UNCHANGED << recording, startResult, recBuf, sdStream, takeOnDisk,
                  record_btn_text, recording_indicator_visible,
                  svars, bvars, uvars, hvars, gvars, tvars, pvars, yvars, cvars >>

\* _record_thread, finally (lines 1237-1240); the thread ends and its
\* buffer is dropped.
record_thread_finally(t) ==
  /\ recPc[t] = "finally"
  /\ recording' = FALSE
  /\ record_btn_text' = "Record"
  /\ recording_indicator_visible' = FALSE
  /\ recPc' = [recPc EXCEPT ![t] = "none"]
  /\ recBuf' = [recBuf EXCEPT ![t] = 0]
  /\ UNCHANGED << startResult, sdStream, takeOnDisk, uiQueue,
                  svars, bvars, uvars, hvars, gvars, tvars, pvars, yvars, cvars >>

\* The UI thread runs the next queued notification of a capture thread:
\* process_user_audio (lines 1427-1474: stops the playback-line timer,
\* and enables play_user_btn at line 1470 when the take can be analysed) or
\* one of the two lambdas of lines 1227-1228.
ui_notification ==
  /\ uiQueue # <<>>
  /\ uiQueue' = Tail(uiQueue)
  /\ play_user_btn_enabled' =
       IF \/ Head(uiQueue) = "enable_play_user"
          \/ /\ Head(uiQueue) = "process_user_audio"
             /\ takeOnDisk.whole /\ takeOnDisk.frames > 0
       THEN TRUE ELSE play_user_btn_enabled
  /\ loop_user_btn_enabled' =
       IF Head(uiQueue) = "enable_loop_user" THEN TRUE
       ELSE loop_user_btn_enabled
  /\ user_playback_timer' =
       IF Head(uiQueue) = "process_user_audio" THEN FALSE
       ELSE user_playback_timer
  /\ UNCHANGED << recording, startResult, recPc, recBuf, sdStream,
                  takeOnDisk, record_btn_text, recording_indicator_visible,
                  svars, user_playing, user_playback_paused, userPc,
                  userKind, pendingStarts, pendingLoopTimers,
                  stop_user_btn_enabled, hvars, gvars, tvars, pvars, yvars, cvars >>

NextRec ==
  \/ start_recording
  \/ stop_recording
  \/ toggle_recording
  \/ \E t \in Threads : record_thread_rec(t)
  \/ device_capture
  \/ \E t \in Threads : record_thread_loop(t)
  \/ \E t \in Threads : record_thread_save(t)
  \/ \E t \in Threads : record_thread_notify(t)
  \/ \E t \in Threads : record_thread_finally(t)
  \/ ui_notification

SpecRec == Init /\ [][NextRec]_vars

\* The capture thread, the input device and the UI event loop keep running:
\* each of their steps is taken if it stays possible.  The user's clicks
\* (start, stop, toggle) are under no such condition.
RecFairness ==
  /\ \A t \in Threads : /\ WF_vars(record_thread_rec(t))
                         /\ WF_vars(record_thread_loop(t))
                         /\ WF_vars(record_thread_save(t))
                         /\ WF_vars(record_thread_notify(t))
                         /\ WF_vars(record_thread_finally(t))
  /\ WF_vars(device_capture)
  /\ WF_vars(ui_notification)

SpecRecLive == Init /\ [][NextRec]_vars /\ RecFairness


\* ================================================================
\* User-take playback (play_user, loop_user, stop_user and their threads)
\* ================================================================
USelf ==
  [ user_playing |-> user_playing,
    user_playback_paused |-> user_playback_paused,
    userPc |-> userPc, userKind |-> userKind, sdStream |-> sdStream,
    pendingStarts |-> pendingStarts,
    pendingLoopTimers |-> pendingLoopTimers,
    user_playback_timer |-> user_playback_timer,
    stop_user_btn_enabled |-> stop_user_btn_enabled,
    play_user_btn_enabled |-> play_user_btn_enabled,
    loop_user_btn_enabled |-> loop_user_btn_enabled,
    user_playback_start_time |-> user_playback_start_time,
    user_playback_pos |-> user_playback_pos,
    pg_user_playback_line |-> pg_user_playback_line,
    timer_duration |-> timer_duration, timer_is_loop |-> timer_is_loop ]

UCommit(u) ==
  /\ user_playing' = u.user_playing
  /\ user_playback_paused' = u.user_playback_paused
  /\ userPc' = u.userPc
  /\ userKind' = u.userKind
  /\ sdStream' = u.sdStream
  /\ pendingStarts' = u.pendingStarts
  /\ pendingLoopTimers' = u.pendingLoopTimers
  /\ user_playback_timer' = u.user_playback_timer
  /\ stop_user_btn_enabled' = u.stop_user_btn_enabled
  /\ play_user_btn_enabled' = u.play_user_btn_enabled
  /\ loop_user_btn_enabled' = u.loop_user_btn_enabled
  /\ user_playback_start_time' = u.user_playback_start_time
  /\ user_playback_pos' = u.user_playback_pos
  /\ pg_user_playback_line' = u.pg_user_playback_line
  /\ timer_duration' = u.timer_duration
  /\ timer_is_loop' = u.timer_is_loop
  /\ UNCHANGED << now, svars, rvars, hvars, gvars, tvars, pvars, yvars >>

\* Thread ids not in use by a user-take playback thread.
FreeUserThreads == { t \in Threads : userPc[t] = "none" }

\* threading.Thread(target=...).start() at lines 1313 and 1374
spawn_user_thread(u, t, kind) ==
  [u EXCEPT !.userPc[t] = "read", !.userKind[t] = kind]

\* _cleanup_playback_lines (lines 1515-1527)
cleanup_playback_lines(u) == [u EXCEPT !.user_playback_timer = FALSE]

\* play_user (lines 1247-1275).  The pause reads user_playback_start_time
\* at line 1256, which raises AttributeError when no playback has set it
\* yet; the lines before it have run by then.
play_user_body(u) ==
  IF u.user_playing
  THEN LET u1 == [u EXCEPT !.user_playback_paused = TRUE,
                           !.user_playback_timer = FALSE,
                           !.sdStream = NoStream]
       IN IF u.user_playback_start_time = NoTime
          THEN u1
          ELSE [u1 EXCEPT !.user_playback_pos =
                              now - u.user_playback_start_time,
                          !.user_playing = FALSE,
                          !.stop_user_btn_enabled = TRUE]
  ELSE IF u.user_playback_paused
  THEN [u EXCEPT !.user_playback_paused = FALSE,
                 !.user_playing = TRUE,
                 !.stop_user_btn_enabled = TRUE,
                 !.pendingStarts = Append(@, TRUE)]
  ELSE [u EXCEPT !.user_playing = TRUE,
                 !.loop_user_btn_enabled = FALSE,
                 !.stop_user_btn_enabled = TRUE,
                 !.user_playback_pos = 0,
                 !.pendingStarts = Append(@, FALSE)]

\* duration = len(audio_data) / sample_rate, or 0 when the take cannot be
\* read (lines 1287-1293, 1360-1371)
take_duration ==
  IF takeOnDisk.whole /\ takeOnDisk.frames > 0 THEN TakeTicks ELSE 0

\* start_user_playback_with_timer (lines 1277-1313); the head of
\* pendingStarts is its resume argument.
start_user_playback_with_timer_body(u, t) ==
  LET resume == Head(u.pendingStarts)
      u1 == cleanup_playback_lines(u)
      u2 == [u1 EXCEPT !.user_playback_start_time =
                           IF resume THEN now - u.user_playback_pos ELSE now,
                       !.user_playback_pos = IF resume THEN @ ELSE 0,
                       !.pendingStarts = Tail(@),
                       !.timer_duration = take_duration,
                       !.timer_is_loop = FALSE,
                       !.user_playback_timer = TRUE]
  IN  spawn_user_thread(u2, t, "play")

\* start_user_loop_playback_with_timer (lines 1354-1374); the pending timer
\* start carries the duration computed here.
start_user_loop_playback_with_timer(u, t) ==
  LET u1 == cleanup_playback_lines(u)
      u2 == [u1 EXCEPT !.user_playback_start_time = now,
                       !.pendingLoopTimers = Append(@, take_duration)]
  IN  spawn_user_thread(u2, t, "loop")

\* loop_user (lines 1343-1352)
loop_user_body(u, t) ==
  IF u.user_playing
  THEN u
  ELSE start_user_loop_playback_with_timer(
         [u EXCEPT !.user_playing = TRUE,
                   !.play_user_btn_enabled = FALSE,
                   !.loop_user_btn_enabled = FALSE,
                   !.stop_user_btn_enabled = TRUE], t)

\* stop_user (lines 1416-1425)
stop_user_body(u) ==
  cleanup_playback_lines(
    [u EXCEPT !.user_playing = FALSE,
              !.user_playback_paused = FALSE,
              !.user_playback_pos = 0,
              !.sdStream = NoStream,
              !.stop_user_btn_enabled = FALSE,
              !.pg_user_playback_line = 0])

play_user ==
  /\ Len(pendingStarts) < MaxShots \/ user_playing
  /\ UCommit(play_user_body(USelf))

start_user_playback_with_timer ==
  /\ pendingStarts # <<>>
  /\ FreeUserThreads # {}
  /\ UCommit(start_user_playback_with_timer_body(
               USelf, CHOOSE t \in FreeUserThreads : TRUE))

loop_user ==
  /\ FreeUserThreads # {}
  /\ Len(pendingLoopTimers) < MaxShots \/ user_playing
  /\ UCommit(loop_user_body(USelf, CHOOSE t \in FreeUserThreads : TRUE))

stop_user ==
  /\ UCommit(stop_user_body(USelf))

\* _start_user_loop_playback_timer (lines 1376-1392)
start_user_loop_playback_timer ==
  /\ pendingLoopTimers # <<>>
  /\ pendingLoopTimers' = Tail(pendingLoopTimers)
  /\ user_playback_timer' = TRUE
  /\ timer_duration' = Head(pendingLoopTimers)
  /\ timer_is_loop' = TRUE
  /\ UNCHANGED << user_playing, user_playback_paused, userPc, userKind,
                  sdStream, pendingStarts, stop_user_btn_enabled, now,
                  user_playback_start_time, user_playback_pos,
                  pg_user_playback_line,
                  svars, rvars, bvars, hvars, gvars, tvars, pvars, yvars >>

\* update_playback_line of the loop timer (lines 1380-1390)
update_loop_playback_line ==
  /\ user_playback_timer /\ timer_is_loop
  /\ user_playback_timer' = user_playing
  /\ pg_user_playback_line' =
       IF ~user_playing \/ timer_duration = 0 THEN 0
       ELSE (now - user_playback_start_time) % timer_duration
  /\ UNCHANGED << user_playing, user_playback_paused, userPc, userKind,
                  sdStream, pendingStarts, pendingLoopTimers,
                  stop_user_btn_enabled, now, user_playback_start_time,
                  user_playback_pos, timer_duration, timer_is_loop,
                  svars, rvars, bvars, hvars, gvars, tvars, pvars, yvars >>

\* update_playback_line of the single-playback timer (lines 1296-1308): the
\* line shows the elapsed time; once the duration has elapsed or playback is
\* no longer flagged the timer stops and line and position go back to 0.
update_playback_line ==
  /\ user_playback_timer /\ ~timer_is_loop
  /\ LET elapsed == now - user_playback_start_time
         over == elapsed >= timer_duration \/ ~user_playing
     IN /\ user_playback_timer' = ~over
        /\ pg_user_playback_line' = IF over THEN 0 ELSE elapsed
        /\ user_playback_pos' = IF over THEN 0 ELSE user_playback_pos
  /\ UNCHANGED << user_playing, user_playback_paused, userPc, userKind,
                  sdStream, pendingStarts, pendingLoopTimers,
                  stop_user_btn_enabled, now, user_playback_start_time,
                  timer_duration, timer_is_loop,
                  svars, rvars, bvars, hvars, gvars, tvars, pvars, yvars >>

\* _play_user_thread / _loop_user_thread, wavfile.read and trim (lines
\* 1317-1328, 1396-1404): raises when there is no readable take.
user_thread_read(t) ==
  /\ userPc[t] = "read"
  /\ userPc' = [userPc EXCEPT ![t] =
       IF takeOnDisk.whole /\ takeOnDisk.frames > 0
       THEN (IF userKind[t] = "loop" THEN "check" ELSE "play")
       ELSE "finally"]
  /\ UNCHANGED << user_playing, user_playback_paused, userKind, sdStream,
                  pendingStarts, pendingLoopTimers, user_playback_timer,
                  stop_user_btn_enabled, svars, rvars, bvars, hvars, gvars, tvars, pvars, yvars, cvars >>

\* _loop_user_thread, while self.user_playing (line 1405)
loop_user_thread_check(t) ==
  /\ userPc[t] = "check"
  /\ userPc' = [userPc EXCEPT ![t] =
       IF user_playing THEN "play" ELSE "finally"]
  /\ UNCHANGED << user_playing, user_playback_paused, userKind, sdStream,
                  pendingStarts, pendingLoopTimers, user_playback_timer,
                  stop_user_btn_enabled, svars, rvars, bvars, hvars, gvars, tvars, pvars, yvars, cvars >>

\* sd.play (lines 1329, 1406): this thread's stream replaces the current one
user_thread_play(t) ==
  /\ userPc[t] = "play"
  /\ sdStream' = [kind |-> "out", owner |-> t]
  /\ userPc' = [userPc EXCEPT ![t] = "wait"]
  /\ UNCHANGED << user_playing, user_playback_paused, userKind,
                  pendingStarts, pendingLoopTimers, user_playback_timer,
                  stop_user_btn_enabled, svars, rvars, bvars, hvars, gvars, tvars, pvars, yvars, cvars >>

\* The output device has played this stream to its end.
stream_finished ==
  /\ sdStream.kind = "out"
  /\ sdStream' = NoStream
  /\ UNCHANGED << user_playing, user_playback_paused, userPc, userKind,
                  pendingStarts, pendingLoopTimers, user_playback_timer,
                  stop_user_btn_enabled, svars, rvars, bvars, hvars, gvars, tvars, pvars, yvars, cvars >>

\* sd.wait (lines 1330, 1407) returns once this thread's stream has
\* finished or been stopped; line 1331 is repeated by the finally block.
user_thread_wait(t) ==
  /\ userPc[t] = "wait"
  /\ sdStream # [kind |-> "out", owner |-> t]
  /\ userPc' = [userPc EXCEPT ![t] =
       IF userKind[t] = "loop" THEN "check" ELSE "finally"]
  /\ UNCHANGED << user_playing, user_playback_paused, userKind, sdStream,
                  pendingStarts, pendingLoopTimers, user_playback_timer,
                  stop_user_btn_enabled, svars, rvars, bvars, hvars, gvars, tvars, pvars, yvars, cvars >>

\* finally blocks (lines 1334-1341, 1410-1414); the thread ends.
user_thread_finally(t) ==
  /\ userPc[t] = "finally"
  /\ user_playing' = FALSE
  /\ play_user_btn_enabled' = TRUE
  /\ loop_user_btn_enabled' = TRUE
  /\ stop_user_btn_enabled' =
       IF userKind[t] = "play" /\ user_playback_paused
       THEN stop_user_btn_enabled ELSE FALSE
  /\ userPc' = [userPc EXCEPT ![t] = "none"]
  /\ userKind' = [userKind EXCEPT ![t] = "none"]
  /\ UNCHANGED << user_playback_paused, sdStream, pendingStarts,
                  pendingLoopTimers, user_playback_timer, svars, rvars,
                  hvars, gvars, tvars, pvars, yvars, cvars >>

\* A take is on disk (a recording was made earlier).
take_recorded ==
  /\ takeOnDisk = NoTake
  /\ takeOnDisk' = [frames |-> 1, whole |-> TRUE]
  /\ UNCHANGED << recording, startResult, recPc, recBuf, uiQueue,
                  record_btn_text, recording_indicator_visible,
                  svars, dvars, bvars, uvars, hvars, gvars, tvars, pvars, yvars, cvars >>

NextUser ==
  \/ play_user
  \/ start_user_playback_with_timer
  \/ loop_user
  \/ stop_user
  \/ start_user_loop_playback_timer
  \/ update_loop_playback_line
  \/ update_playback_line
  \/ \E t \in Threads : user_thread_read(t)
  \/ \E t \in Threads : loop_user_thread_check(t)
  \/ \E t \in Threads : user_thread_play(t)
  \/ stream_finished
  \/ \E t \in Threads : user_thread_wait(t)
  \/ \E t \in Threads : user_thread_finally(t)
  \/ take_recorded

SpecUser == Init /\ [][NextUser]_vars

\* time.time() advances.
clock_tick ==
  /\ now < MaxNow
  /\ now' = now + 1
  /\ UNCHANGED << user_playback_start_time, user_playback_pos,
                  pg_user_playback_line, timer_duration, timer_is_loop,
                  svars, rvars, dvars, bvars, uvars, hvars, gvars, tvars,
                  pvars, yvars >>

NextUserClock ==
  \/ NextUser
  \/ clock_tick

SpecUserClock == Init /\ [][NextUserClock]_vars


\* ================================================================ claims
\* Every set_time call in the run s was made with _expecting_seek set.
SeeksFlagged(s) ==
  \A i \in DOMAIN s.calls : s.calls[i].call = "set_time" => s.calls[i].flag

Abs(x) == IF x >= 0 THEN x ELSE -x

\* ================================================================
\* The trim of a take (_record_thread, lines 1204-1215), sample by sample
\* ================================================================
\* abs_rec > 1e-4 (line 1207); amplitudes are in units of 1e-4.
SilenceThreshold == 1

Amplitudes == { -2, -1, 0, 1, 2 }

\* recording[:last] with last = nonzero[-1] + 1, or the whole buffer when
\* nothing is above the threshold (lines 1206-1212), under a count of the
\* samples above the threshold instead of the last index
trim_to_count(rec) ==
  LET nonzero == np_where([i \in 1..Len(rec)
                            |-> Abs(rec[i]) > SilenceThreshold], 0)
  IN IF Len(nonzero) > 0
     THEN SubSeq(rec, 1, Len(nonzero))
     ELSE rec

\* recording[:last] with last = nonzero[-1] + 1, or the whole buffer when
\* nothing is above the threshold (lines 1206-1212)
trim(rec) ==
  LET nonzero == np_where([i \in 1..Len(rec)
                            |-> Abs(rec[i]) > SilenceThreshold], 0)
  IN IF Len(nonzero) > 0
     THEN SubSeq(rec, 1, nonzero[Len(nonzero)] + 1)
     ELSE rec

\* The buffer sd.rec returned holds any samples when the loop is left.
InitTrim ==
  /\ InitScheduler /\ InitRecording /\ InitButtons /\ InitUser
  /\ InitHistory /\ InitRegion /\ InitTrace /\ InitAxis /\ InitClock
  /\ recording_array \in [1..TrimFrames -> Amplitudes]
  /\ trimmed = <<>>

\* The take is trimmed and written (lines 1204-1215).
write_take ==
  /\ trimmed' = trim(recording_array)
  /\ takeOnDisk' = [frames |-> Len(trimmed'), whole |-> TRUE]
  /\ UNCHANGED << recording, startResult, recPc, recBuf, uiQueue,
                  record_btn_text, recording_indicator_visible, recording_array,
                  svars, dvars, bvars, uvars, hvars, gvars, tvars, yvars, cvars >>

NextTrim == write_take

SpecTrim == InitTrim /\ [][NextTrim]_vars

\* Indices, from 0, of the samples above the silence threshold
AboveThreshold(rec) ==
  { i \in 0 .. Len(rec) - 1 : Abs(rec[i + 1]) > SilenceThreshold }

\* C21: the persisted take has length last + 1, last being the greatest
\* index above the silence threshold, and is the whole buffer when no sample
\* is above it; it is a prefix of the buffer.
C21_TrimKeepsUpToLastLoud ==
  [][ write_take
        => LET above == AboveThreshold(recording_array)
           IN /\ above = {} => trimmed' = recording_array
              /\ above # {}
                   => \E last \in above :
                        /\ \A i \in above : i <= last
                        /\ Len(trimmed') = last + 1
              /\ trimmed' = SubSeq(recording_array, 1, Len(trimmed'))
              /\ takeOnDisk'.frames = Len(trimmed') ]_vars

\* A buffer that is loud only in its middle: silent first sample, silent
\* tail, written without the tail.
C21_Witness ==
  /\ Len(trimmed) = TrimFrames - 1
  /\ AboveThreshold(recording_array) = 1 .. TrimFrames - 2
  /\ takeOnDisk.frames = TrimFrames - 1

\* Capture threads that have been started and have not finished.
ActiveRecThreads == { t \in Threads : recPc[t] # "none" }

\* User-take playback threads that have been started and have not finished.
ActiveUserThreads == { t \in Threads : userPc[t] # "none" }

\* C1: at most one capture thread is active at any time; no new recording
\* begins while the previous thread has not finished capturing, trimming
\* and persisting.
C1_OneCaptureThread == Cardinality(ActiveRecThreads) <= 1

\* C2: at most one user-take playback thread is active at any time; a start
\* issued while one is still active is rejected and never runs in parallel.
C2_OnePlaybackThread == Cardinality(ActiveUserThreads) <= 1

FlagAtSample ==
  \/ _expecting_seek
  \/ /\ vlcState \in PlayingStates
     /\ vlcTime >= _loop_end
     /\ ~(_is_looping /\ delay_val(Self) > 0)

\* C11 as stated: with interpolated = clamp(lastSamplePos + age, 0, maxEnd),
\* a poll stores the polled time when the flag was set, or the player is
\* not playing, or polled > interpolated + 100 ms, and interpolated
\* otherwise; the sample time becomes now and the flag is clear afterwards.
C11_PollUpdateRule_AsStated ==
  [][ sample_poll =>
        LET interpolated == Clamp(_last_playback_pos + sinceSample, MaxEnd)
        IN /\ _last_playback_pos' =
                IF \/ _expecting_seek
                   \/ vlcState \notin PlayingStates
                   \/ vlcTime > interpolated + ResyncAheadMs
                THEN vlcTime ELSE interpolated
           /\ sinceSample' = 0
           /\ ~_expecting_seek' ]_vars

\* C11 (amended): the same rule with the polled time clamped to [0, maxEnd]
\* and the flag taken as the estimator reads it, that is including a seek
\* the same poll issued at the loop end.
C11_PollUpdateRule ==
  [][ sample_poll =>
        LET polled == Clamp(vlcTime, MaxEnd)
            interpolated == Clamp(_last_playback_pos + sinceSample, MaxEnd)
        IN /\ _last_playback_pos' =
                IF \/ FlagAtSample
                   \/ vlcState \notin PlayingStates
                   \/ polled > interpolated + ResyncAheadMs
                THEN polled ELSE interpolated
           /\ sinceSample' = 0
           /\ ~_expecting_seek' ]_vars

\* The third poll of the scenario: stored sample 50 ms, 50 ms old, the
\* player lags and reports 90 ms while playing; the estimate is 100 ms.
C11_Witness ==
  /\ lastRun.name = "poll_vlc_state_and_overlay"
  /\ lastRun.state = "Playing" /\ ~lastRun.flag
  /\ lastRun.pos = PollIntervalMs /\ lastRun.age = PollIntervalMs
  /\ lastRun.polled = 2 * PollIntervalMs - NudgeMs
  /\ _last_playback_pos = 2 * PollIntervalMs
  /\ sinceSample = 0

\* C12: the stored position estimate and the value given to the playback
\* indicator always lie in [0, maxEnd].
C12_PositionsWithinClip ==
  /\ 0 <= _last_playback_pos /\ _last_playback_pos <= MaxEnd
  /\ 0 <= pg_playback_line /\ pg_playback_line <= MaxEnd

\* The state record with the delay input holding "0".
WithZeroDelay(s) == [s EXCEPT !.loop_delay_input = ZeroDelayText]

\* The poll of the same state with the delay input holding "0".
PollRunWithZeroDelay ==
  poll_vlc_state_and_overlay_body(
    WithZeroDelay([Self EXCEPT !.pollTimer = PollIntervalMs]))

\* The calls of a run that pause the player or start a delay.
RECURSIVE DelayCalls(_)
DelayCalls(calls) ==
  IF calls = <<>> THEN 0
  ELSE (IF Head(calls).call \in {"loop_delay_timer.start", "singleShot"}
        THEN 1 ELSE 0) + DelayCalls(Tail(calls))

\* C17: with a loop-delay input that is not an integer in [0, 800] the poll
\* and the end-of-media handler do exactly what they do with the input "0":
\* same calls, same resulting state, and no delay is started.
C17_InvalidDelayActsAsZero ==
  [][ /\ (sample_poll /\ loop_delay_input \in InvalidDelayTexts)
          => /\ PollRun =
                  [PollRunWithZeroDelay
                     EXCEPT !.loop_delay_input = loop_delay_input]
             /\ DelayCalls(PollRun.calls) = 0
             /\ _loop_delay_timer' = <<>>
      /\ (sample_handle_end /\ loop_delay_input \in InvalidDelayTexts)
          => /\ handle_end_body(Self) =
                  [handle_end_body(WithZeroDelay(Self))
                     EXCEPT !.loop_delay_input = loop_delay_input]
             /\ DelayCalls(handle_end_body(Self).calls) = 0
             /\ endDelayShots' = <<>> ]_vars

\* A poll found the playing player at the loop end with looping on and an
\* invalid delay text: it sought back at once and the player keeps playing.
C17_Witness ==
  /\ lastRun.name = "poll_vlc_state_and_overlay"
  /\ lastRun.text \in InvalidDelayTexts
  /\ lastRun.state = "Playing" /\ lastRun.looping
  /\ lastRun.polled >= lastRun.loop_end
  /\ vlcSeek = _loop_start
  /\ vlcState = "Playing"
  /\ _loop_delay_timer = <<>>

\* C13: after any sequence of region edits and clear_selection the stored
\* loop region satisfies 0 <= _loop_start < _loop_end <= maxEnd.
C13_RegionWellFormed ==
  /\ 0 <= _loop_start
  /\ _loop_start < _loop_end
  /\ _loop_end <= MaxEnd

\* The bounds (a, b) clamped to [0, maxEnd] and put in ascending order.
ClampedSorted(a, b) ==
  << Min(Clamp(a, MaxEnd), Clamp(b, MaxEnd)),
     Max(Clamp(a, MaxEnd), Clamp(b, MaxEnd)) >>

\* An edit whose bounds the snap-to-start rule leaves alone.
NoSnap(a, b) == (a <= 0 \/ a >= SnapMs) /\ (b <= 0 \/ b >= SnapMs)

\* C14: a region edit with arbitrary (start, end) stores both bounds
\* clamped to [0, maxEnd], swapped when start > end; (-1, 20) on a clip with
\* maxEnd 11.65 stores [0, 11.65].  Stated for every edit path and for the
\* edits the snap-to-start rule does not touch.
C14_EditClampsAndSwaps ==
  [][ /\ \A a, b \in EditPoints :
           (on_select_at(a, b) /\ NoSnap(a, b))
             => << _loop_start', _loop_end' >> = ClampedSorted(a, b)
      /\ \A a, b \in DragPoints :
           (region_dragged_at(a, b) /\ NoSnap(a, b))
             => << _loop_start', _loop_end' >> = ClampedSorted(a, b)
      /\ \A b \in EditPoints :
           (on_mouse_clicked_at(b) /\ _selection_start # NoSelection
              /\ NoSnap(_selection_start, b))
             => << _loop_start', _loop_end' >>
                  = ClampedSorted(_selection_start, b) ]_vars

\* C15: a region edit whose start is below 0.1 s stores the start as 0 and
\* keeps the requested end, on every edit path and with the redraw the edit
\* triggers included.
C15_SnapToStart ==
  [][ \A a, b \in DragPoints :
        (0 <= a /\ a < SnapMs /\ SnapMs <= b)
          => /\ on_select_at(a, b)
                  => << _loop_start', _loop_end' >> = << 0, b >>
             /\ region_dragged_at(a, b)
                  => << _loop_start', _loop_end' >> = << 0, b >> ]_vars

\* C16: clear_selection leaves the bounds [0, maxEnd], and calling it a
\* second time in a row leaves what the first call left: the same bounds,
\* the same region widget, no selection in progress changed.
C16_ClearIdempotent ==
  [][ clear_selection
        => /\ << _loop_start', _loop_end' >> = << 0, MaxEnd >>
           /\ clear_selection_body(clear_selection_body(GSelf))
                = clear_selection_body(GSelf)
           /\ lastEdit.name = "clear_selection"
                => UNCHANGED << _loop_start, _loop_end, pg_region >> ]_vars

\* clear_selection has run twice in a row and the bounds are [0, maxEnd].
C16_Witness ==
  /\ lastEdit.name = "clear_selection"
  /\ lastEdit.prev = "clear_selection"
  /\ << _loop_start, _loop_end >> = << 0, MaxEnd >>
  /\ pg_region = << 0, MaxEnd >>

\* The maximal runs of consecutive voiced samples, as pairs (start, end) of
\* the half-open range start..end-1 of indices from 0.
VoicedRuns(voiced) ==
  LET n == Len(voiced)
  IN { r \in (0..n) \X (0..n) :
         /\ r[1] < r[2]
         /\ \A i \in r[1] .. r[2] - 1 : voiced[i + 1]
         /\ r[1] = 0 \/ ~voiced[r[1]]
         /\ r[2] = n \/ ~voiced[r[2] + 1] }

\* segs is exactly the runs of two samples or more, from left to right
ExactRuns(segs, voiced) ==
  /\ \A k \in 1..Len(segs) :
        /\ segs[k] \in VoicedRuns(voiced)
        /\ segs[k][2] - segs[k][1] >= 2
        /\ \A i \in segs[k][1] .. segs[k][2] - 1 : voiced[i + 1]
  /\ \A r \in VoicedRuns(voiced) :
        r[2] - r[1] >= 2 => \E k \in 1..Len(segs) : segs[k] = r
  /\ \A k \in 1..Len(segs) - 1 : segs[k][2] < segs[k + 1][1]

\* The range an array of consecutive indices covers
RangeOf(idx) == << idx[1], idx[Len(idx)] + 1 >>

Consecutive(idx) ==
  /\ Len(idx) > 0
  /\ \A i \in 1..Len(idx) : idx[i] = idx[1] + i - 1

\* C18: both segmentations (the scan of redraw_native_waveform and the index
\* arithmetic of process_audio) yield exactly the maximal runs of
\* consecutive voiced samples of length 2 or more, as half-open ranges from
\* left to right; single voiced samples yield nothing and every index in a
\* segment is voiced.
C18_SegmentsAreMaximalRuns ==
  [][ /\ redraw_native_waveform /\ native_loaded
        => ExactRuns(pg_native_segments', native_voiced)
      /\ process_audio /\ Len(native_voiced') > 0
        => /\ \A k \in 1..Len(plotted_segments') :
                Consecutive(plotted_segments'[k])
           /\ ExactRuns([k \in 1..Len(plotted_segments')
                           |-> RangeOf(plotted_segments'[k])],
                        native_voiced')
           /\ [k \in 1..Len(plotted_segments')
                 |-> RangeOf(plotted_segments'[k])] = segment(native_voiced')
    ]_vars

\* A series with a single voiced sample and a run that ends at the last
\* sample, plotted by both segmentations.
C18_Witness ==
  /\ lastEdit.name = "redraw_native_waveform"
  /\ lastEdit.prev = "process_audio"
  /\ Len(pg_native_segments) = 1
  /\ Len(plotted_segments) = 1
  /\ pg_native_segments[1][2] = Len(native_voiced)
  /\ \E r \in VoicedRuns(native_voiced) : r[2] - r[1] = 1

\* C19: with an empty series the analysis and the redraw yield no segment
\* and complete without raising.
C19_EmptySeriesCompletes ==
  [][ (process_audio \/ redraw_native_waveform)
      /\ native_loaded' /\ Len(native_voiced') = 0
        => /\ trace_error' = "none"
           /\ pg_native_segments' = <<>> ]_vars

\* The capture of thread t has filled its buffer while the recording is on.
BufferFull(t) ==
  /\ recording
  /\ recPc[t] = "loop"
  /\ recBuf[t] = BufCap

\* C20: a capture whose buffer is full completes without a stop request: the
\* take is persisted and the recording state returns to idle.
C20_FullBufferCompletes ==
  \A t \in Threads :
    BufferFull(t) ~> (~recording /\ recPc[t] = "none" /\ takeOnDisk.whole)

\* Entries of the UI queue that are the notification x
Scheduled(q, x) == Cardinality({ i \in 1..Len(q) : q[i] = x })

\* C22: a capture thread that has left its loop schedules process_user_audio
\* exactly once before it ends, and nothing else schedules it: the thread
\* goes from the save to the notification and from there to its end, the
\* notification adds one process_user_audio to the queue, and no other
\* step adds any.
C22_NotifiedOncePerCapture ==
  [][ /\ \A t \in Threads :
           /\ recPc[t] = "save" => recPc'[t] \in {"save", "notify"}
           /\ recPc'[t] = "notify" => recPc[t] \in {"save", "notify"}
           /\ recPc[t] = "notify" /\ recPc'[t] # "notify"
                => /\ recPc'[t] = "finally"
                   /\ Scheduled(uiQueue', "process_user_audio")
                        = Scheduled(uiQueue, "process_user_audio") + 1
      /\ Scheduled(uiQueue', "process_user_audio")
            > Scheduled(uiQueue, "process_user_audio")
           => \E t \in Threads : recPc[t] = "notify" /\ recPc'[t] = "finally"
    ]_vars

\* A capture that recorded frames has been written and its thread has
\* scheduled the re-analysis.
C22_Witness ==
  \E t \in Threads :
    /\ recPc[t] = "finally"
    /\ recBuf[t] > 0
    /\ takeOnDisk.frames = recBuf[t]
    /\ Scheduled(uiQueue, "process_user_audio") = 1

\* C23: a write of the take that fails leaves the take that was on disk
\* before as it was.
C23_FailedWriteKeepsPreviousTake ==
  [][ ( /\ takeOnDisk.whole /\ takeOnDisk.frames > 0
        /\ \E t \in Threads : record_thread_save(t)
        /\ ~takeOnDisk'.whole )
        => takeOnDisk' = takeOnDisk ]_vars

\* C24: no step of a capture thread writes the recording flag, the record
\* button, the indicator or the playback buttons.
C24_ThreadsWriteNoUiState ==
  [][ (\E t \in Threads : \/ record_thread_rec(t)
                          \/ record_thread_loop(t)
                          \/ record_thread_save(t)
                          \/ record_thread_notify(t)
                          \/ record_thread_finally(t))
        => UNCHANGED << recording, record_btn_text,
                        recording_indicator_visible, play_user_btn_enabled,
                        loop_user_btn_enabled >> ]_vars

\* C25: the recording flag is never set while no capture thread runs.
C25_NoRecordingWithoutThread ==
  recording => ActiveRecThreads # {}

\* A resumed single playback is under way: the position stored by the pause
\* is still there, the pause is over, the resumed start has run, the take
\* has not been played to its end and a playback thread has yet to play or
\* is playing it.
ResumedPlayback ==
  /\ user_playback_pos > 0
  /\ ~user_playback_paused
  /\ pendingStarts = <<>>
  /\ user_playback_timer /\ ~timer_is_loop
  /\ now - user_playback_start_time < timer_duration
  /\ \E t \in Threads :
       /\ userKind[t] = "play"
       /\ \/ userPc[t] \in {"read", "play"}
          \/ userPc[t] = "wait" /\ sdStream = [kind |-> "out", owner |-> t]

\* C26: a resume sets the virtual start to now minus the position stored by
\* the pause, and the position reported for the resumed playback is the
\* wall clock minus that virtual start, whatever the thread of the playback
\* before the pause does when it ends.
C26_ResumeKeepsPosition ==
  [][ /\ (start_user_playback_with_timer /\ Head(pendingStarts))
           => now - user_playback_start_time' = user_playback_pos
      /\ (update_playback_line /\ ResumedPlayback)
           => /\ pg_user_playback_line' = now - user_playback_start_time
              /\ user_playback_pos' = user_playback_pos ]_vars

\* The state stop_user leaves: nothing playing, paused or pending.
Halted ==
  /\ ~user_playing
  /\ ~user_playback_paused
  /\ ~stop_user_btn_enabled
  /\ pendingStarts = <<>>
  /\ pendingLoopTimers = <<>>

\* C27: stop_user leaves playback halted, the position 0, the paused flag
\* clear and the stop button disabled, and a playback thread that ends
\* afterwards does not enable the play and loop buttons again.
C27_StopStaysStopped ==
  [][ /\ stop_user
           => /\ ~user_playing' /\ ~user_playback_paused'
              /\ user_playback_pos' = 0
              /\ sdStream'.kind # "out"
              /\ ~stop_user_btn_enabled'
      /\ \A t \in Threads :
           (user_thread_finally(t) /\ Halted)
             => UNCHANGED << play_user_btn_enabled, loop_user_btn_enabled >>
    ]_vars

\* C28: reset_y_axis leaves ceil(max voiced frequency / 50) * 50 clamped to
\* [1, 1000] in the y-axis field, and 500 when the loaded series has no
\* voiced sample, without raising.
C28_RestingYAxis ==
  [][ (reset_y_axis /\ native_loaded)
        => LET voiced == { native_pitch[i] : i \in 1..Len(native_pitch) }
                           \ { 0 }
           IN /\ trace_error' = "none"
              /\ voiced = {} => y_axis_input' = DefaultYMax
              /\ \A m \in voiced :
                   (\A x \in voiced : x <= m)
                     => \E k \in 0 .. (m \div YStep) + 1 :
                          /\ k * YStep >= m
                          /\ (k - 1) * YStep < m
                          /\ y_axis_input' = Max(YLow, Min(YHigh, k * YStep))
    ]_vars

\* The names of the calls of a run, in order
CallNames(calls) == [i \in 1..Len(calls) |-> calls[i].call]

\* A poll finds the playing player at or past the loop end.
AtLoopEnd == vlcState \in PlayingStates /\ vlcTime >= _loop_end

\* C29: a poll that finds the playing player at the loop end with looping on
\* and a delay d > 0 pauses the player, stops the poll timer, cancels a
\* previous delay timer and starts a one-shot of d ms, in this order, and
\* neither seeks nor resumes; when the one-shot fires the grace flag is set
\* and the player sought to the loop start, and a 150 ms one-shot is
\* started; when that fires the player is resumed and the poll timer
\* restarted.  While the delay or the settle period is pending the player
\* is not playing.
C29_DelayedRestartOrder ==
  [][ /\ (sample_poll /\ AtLoopEnd /\ _is_looping /\ delay_val(Self) > 0)
           => /\ CallNames(PollRun.calls)
                   = << "pause", "poll_timer.stop" >>
                       \o (IF _loop_delay_timer # <<>>
                           THEN << "loop_delay_timer.stop" >> ELSE <<>>)
                       \o << "loop_delay_timer.start" >>
              /\ PollRun.calls[Len(PollRun.calls)].arg = delay_val(Self)
              /\ vlcState' = "Paused"
              /\ pollTimer' = NoTimer
              /\ Len(_loop_delay_timer') = 1
              /\ _loop_delay_timer'[1].remaining = delay_val(Self)
              /\ UNCHANGED << vlcSeek, settleShots >>
      /\ (sample_delay_fired /\ _is_looping)
           => /\ restart_if_still_looping_body(Self).calls
                   = << [call |-> "set_time", arg |-> _loop_start,
                         flag |-> TRUE],
                        [call |-> "singleShot", arg |-> SeekWaitMs,
                         flag |-> TRUE] >>
              /\ _expecting_seek'
              /\ vlcSeek' = _loop_start
              /\ settleShots' = Append(settleShots, SeekWaitMs)
              /\ _loop_delay_timer' = <<>>
              /\ UNCHANGED << vlcState, pollTimer >>
      /\ sample_settled
           => /\ CallNames(actually_play_after_seek_body(Self, 1).calls)
                   = << "play", "poll_timer.start" >>
              /\ vlcState' = "Playing"
              /\ pollTimer' = PollIntervalMs
      /\ (_loop_delay_timer' # <<>> \/ settleShots' # <<>>)
           => vlcState' \notin PlayingStates ]_vars

\* The delay started by a poll at the loop end has fired: the seek to the
\* loop start is requested under the grace flag, the settle period is
\* pending, the player is still paused and the poll timer still stopped.
C29_Witness ==
  /\ lastRun.name = "restart_if_still_looping"
  /\ CallNames(lastRun.calls) = << "set_time", "singleShot" >>
  /\ _is_looping /\ delay_val(Self) > 0
  /\ vlcState = "Paused"
  /\ pollTimer = NoTimer
  /\ vlcSeek = _loop_start
  /\ _expecting_seek
  /\ settleShots = << SeekWaitMs >>

\* C30: a poll that finds the playing player at the loop end with delay 0
\* or looping off sets the grace flag and seeks to the loop start in that
\* poll; with looping off it then pauses the player and stops the poll
\* timer, with looping on the player keeps playing and the poll timer keeps
\* running.
C30_ImmediateRestart ==
  [][ (sample_poll /\ AtLoopEnd /\ ~(_is_looping /\ delay_val(Self) > 0))
        => /\ PollRun.calls[1] = [call |-> "set_time", arg |-> _loop_start,
                                  flag |-> TRUE]
           /\ vlcSeek' = _loop_start
           /\ _loop_delay_timer' = <<>>
           /\ ~_is_looping
                => /\ CallNames(PollRun.calls)
                        = << "set_time", "pause", "poll_timer.stop" >>
                   /\ vlcState' = "Paused"
                   /\ pollTimer' = NoTimer
           /\ _is_looping
                => /\ CallNames(PollRun.calls) = << "set_time" >>
                   /\ vlcState' = vlcState
                   /\ pollTimer' = PollIntervalMs ]_vars

\* A poll found the playing player at the loop end with looping off: the
\* seek to the loop start is requested, the player paused, polling stopped.
C30_Witness ==
  /\ lastRun.name = "poll_vlc_state_and_overlay"
  /\ lastRun.state = "Playing" /\ ~lastRun.looping
  /\ lastRun.polled >= lastRun.loop_end
  /\ CallNames(lastRun.calls) = << "set_time", "pause", "poll_timer.stop" >>
  /\ vlcSeek = _loop_start
  /\ vlcState = "Paused"
  /\ pollTimer = NoTimer

\* C31: the end-of-media handler branches as the poll does at the loop end
\* and reaches the same scheduler state: the grace flag is set before its
\* seek, its delay is the tracked delay timer and not another one-shot,
\* with looping off the poll timer is stopped; the event callback itself
\* makes no player call, it only defers the handler.
C31_EndHandlerMatchesPoll ==
  [][ /\ on_vlc_end_reached
           => \A i \in DOMAIN on_vlc_end_reached_body(Self).calls :
                on_vlc_end_reached_body(Self).calls[i].call = "singleShot"
      /\ handle_end
           => /\ SeeksFlagged(handle_end_body(Self))
              /\ (_is_looping /\ delay_val(Self) > 0)
                   => /\ Len(_loop_delay_timer') = 1
                      /\ endDelayShots' = endDelayShots
              /\ ~_is_looping => pollTimer' = NoTimer ]_vars

\* The player is not playing and the play/pause command is not debounced.
PlayRequested == vlcState \notin PlayingStates /\ ~_play_pause_debounce

\* C32: a play request while the player is not playing seeks to the loop
\* start if the player time is outside [loop start, loop end) and to the
\* player time + 10 ms otherwise; the grace flag is set before the seek,
\* the seek comes before play, and play before the start of the poll timer.
C32_PlaySeeksThenPlays ==
  [][ (command_toggle /\ PlayRequested)
        => LET r == toggle_play_pause_body(Self)
               n == Len(r.calls)
               target == IF vlcTime < _loop_start \/ vlcTime >= _loop_end
                         THEN _loop_start
                         ELSE vlcTime + NudgeMs
           IN /\ n >= 4
              /\ r.calls[n - 3] = [call |-> "set_time", arg |-> target,
                                   flag |-> TRUE]
              /\ r.calls[n - 2].call = "play"
              /\ r.calls[n - 1].call = "poll_timer.start"
              /\ \A i \in 1..(n - 4) : r.calls[i].call = "loop_delay_timer.stop"
              /\ vlcSeek' = target
              /\ vlcState' = "Playing"
              /\ pollTimer' = PollIntervalMs ]_vars

\* The calls of a run without the leading cancellation of the delay timer
AfterCancel(calls) ==
  IF calls # <<>> /\ calls[1].call = "loop_delay_timer.stop"
  THEN Tail(calls) ELSE calls

\* C33: after stop_native no loop-delay timer is pending, neither the
\* poll's nor the one-shot of the end-of-media handler; the player was
\* paused and then sought to the loop start with the grace flag set; the
\* poll timer and the redraw timer are stopped; the indicator and
\* _last_playback_pos are at the loop start.
C33_StopResets ==
  [][ stop_native
        => LET c == AfterCancel(stop_native_body(Self).calls)
           IN /\ _loop_delay_timer' = <<>>
              /\ endDelayShots' = <<>>
              /\ CallNames(c) = << "pause", "set_time", "poll_timer.stop",
                                   "indicator_timer.stop" >>
              /\ c[2].arg = _loop_start /\ c[2].flag
              /\ vlcState' \notin PlayingStates
              /\ vlcSeek' = _loop_start
              /\ pollTimer' = NoTimer
              /\ ~indicatorTimer' /\ ~_indicator_timer_active'
              /\ pg_playback_line' = _loop_start
              /\ _last_playback_pos' = _loop_start ]_vars

\* The calls by which a poll acts on the loop end
LoopEndCalls == { "set_time", "loop_delay_timer.start" }

\* C34: while the seek issued by a poll at the loop end is still in flight,
\* less than 0.3 s old and the player still reporting a time at or past the
\* loop end, the next poll issues no second seek and no second delay timer.
C34_NoRetriggerDuringGrace ==
  [][ ( /\ sample_poll
        /\ AtLoopEnd
        /\ vlcSeek = _loop_start
        /\ sinceSample < GracePeriodMs
        /\ lastRun.name = "poll_vlc_state_and_overlay"
        /\ \E i \in DOMAIN lastRun.calls :
             lastRun.calls[i].call \in LoopEndCalls )
        => \A i \in DOMAIN PollRun.calls :
             PollRun.calls[i].call \notin LoopEndCalls ]_vars

\* C35: with looping on and no user command, once a poll is due with the
\* playing player at the loop end, playback eventually runs again from the
\* loop start: the player is at the loop start and playing and the poll
\* timer is running, for every delay text.
C35_LoopEventuallyResumes ==
  (AtLoopEnd /\ _is_looping /\ pollTimer = 0)
    ~> ( /\ vlcState \in PlayingStates
         /\ pollTimer # NoTimer
         /\ vlcTime = _loop_start
         /\ _loop_delay_timer = <<>>
         /\ settleShots = <<>> )

\* The settle period after a delayed restart is over: the player plays
\* again from the loop start and the poll timer runs.
C35_Witness ==
  /\ lastRun.name = "_actually_play_after_seek"
  /\ _is_looping
  /\ delay_val(Self) > 0
  /\ vlcState = "Playing"
  /\ pollTimer = PollIntervalMs
  /\ vlcTime = _loop_start /\ vlcSeek = NoSeek
  /\ _loop_delay_timer = <<>> /\ settleShots = <<>>

\* The last handler that ran was stop_native, or a toggle_play_pause that
\* paused the player, and the player is still not playing.
StoppedByCommand ==
  /\ vlcState \notin PlayingStates
  /\ \/ lastRun.name = "stop_native"
     \/ /\ lastRun.name = "toggle_play_pause"
        /\ \E i \in DOMAIN lastRun.calls : lastRun.calls[i].call = "pause"

\* C36: after stop_native or a pause by toggle_play_pause, a settle
\* one-shot that was pending at the command neither resumes the player nor
\* restarts the poll timer.
C36_StoppedStaysStopped ==
  [][ (command_settled /\ StoppedByCommand)
        => /\ vlcState' \notin PlayingStates
           /\ pollTimer' = NoTimer ]_vars

\* C37: a toggle_play_pause that is ignored because the debounce flag is
\* set leaves the player state, the requested seek, the poll timer, the
\* position estimate and a pending loop-delay timer as they were.
C37_DebouncedToggleChangesNothing ==
  [][ (toggle_play_pause /\ _play_pause_debounce)
        => UNCHANGED << vlcState, vlcTime, vlcSeek, pollTimer,
                        _last_playback_pos, sinceSample, pg_playback_line,
                        _expecting_seek, _loop_delay_timer >> ]_vars

\* C38: whenever the tracked loop-delay timer is pending, the poll timer is
\* stopped and the player is not playing.
C38_DelayPendingMeansPaused ==
  _loop_delay_timer # <<>>
    => pollTimer = NoTimer /\ vlcState \notin PlayingStates

\* The ranges covered by the index arrays of the analysis, in order
RangesOf(plots) == [k \in 1..Len(plots) |-> RangeOf(plots[k])]

\* C39: for every voiced array the scan of the redraw and the index
\* arithmetic of the analysis emit the same segments in the same order:
\* the analysis plots what the scan yields for the new series, and a redraw
\* plots again what the index arithmetic yields for the stored series.
C39_SegmentationsAgree ==
  [][ /\ process_audio
           => /\ RangesOf(segment_np(native_voiced')) = segment(native_voiced')
              /\ Len(native_voiced') > 0
                   => RangesOf(plotted_segments') = segment(native_voiced')
      /\ (redraw_native_waveform /\ native_loaded)
           => pg_native_segments' = RangesOf(segment_np(native_voiced))
    ]_vars

\* A series with two runs of two voiced samples was analysed and then
\* redrawn: both plotted the same two segments.
C39_Witness ==
  /\ lastEdit.name = "redraw_native_waveform"
  /\ lastEdit.prev = "process_audio"
  /\ Len(pg_native_segments) = 2
  /\ pg_native_segments = RangesOf(plotted_segments)
  /\ pg_native_segments[2][2] = Len(native_voiced)

\* C4: a loop-delay restart that is pending when toggle_play_pause or
\* stop_native is invoked is cancelled and never runs its callback: the
\* timer started by the poll is gone after the command, and no one-shot
\* started by the end-of-media handler fires after such a command.
C4_CancelledDelayNeverRuns ==
  [][ /\ (toggle_play_pause \/ stop_native) => _loop_delay_timer' = <<>>
      /\ \A i \in DOMAIN endDelayShots :
           endDelayShots[i].cmd => ~end_delay_restart_at(i) ]_vars

\* C5: a loop-delay whose callback runs after the loop toggle was changed
\* while it was pending has no effect: the callback makes no player or timer
\* call, for the poll's timer and for the end-of-media one-shot.
C5_LoopToggleDiscardsDelay ==
  [][ /\ (restart_if_still_looping /\ _loop_delay_timer[1].loopChanged)
           => restart_if_still_looping_body(Self).calls = <<>>
      /\ \A i \in DOMAIN endDelayShots :
           (end_delay_restart_at(i) /\ endDelayShots[i].loopChanged)
             => end_delay_restart_body(Self, i).calls = <<>> ]_vars

\* C6: at most one loop-delay restart is pending, counting the poll's timer
\* and the end-of-media one-shots.
C6_AtMostOnePendingDelay ==
  Len(_loop_delay_timer) + Len(endDelayShots) <= 1

\* C7: every set_time issued by toggle_play_pause, the poll, stop_native,
\* _restart_loop and the end-of-media handler is made with _expecting_seek
\* already set.
C7_GraceFlagBeforeSeek ==
  [][ /\ toggle_play_pause => SeeksFlagged(toggle_play_pause_body(Self))
      /\ poll_vlc_state_and_overlay => SeeksFlagged(PollRun)
      /\ stop_native => SeeksFlagged(stop_native_body(Self))
      /\ restart_if_still_looping
           => SeeksFlagged(restart_if_still_looping_body(Self))
      /\ \A i \in DOMAIN endDelayShots :
           end_delay_restart_at(i)
             => SeeksFlagged(end_delay_restart_body(Self, i))
      /\ handle_end => SeeksFlagged(handle_end_body(Self)) ]_vars

\* C8: a poll that runs with the grace flag set while the requested seek is
\* not yet applied by the player does not lower _last_playback_pos.
C8_GracePollNotBackward ==
  [][ (poll_vlc_state_and_overlay /\ _expecting_seek /\ vlcSeek # NoSeek)
        => _last_playback_pos' >= _last_playback_pos ]_vars

\* C9: after a poll that found the player playing, _last_playback_pos is
\* within 100 ms of the player's time at that poll, clamped to [0, max_end].
C9_EstimateTracksPlayer ==
  [][ (poll_vlc_state_and_overlay /\ vlcState \in PlayingStates)
        => Abs(_last_playback_pos' - Clamp(vlcTime, MaxEnd))
             <= ResyncAheadMs ]_vars

\* C10: a poll that found the player playing and the grace flag not set
\* does not lower _last_playback_pos.
C10_MonotoneWithoutGrace ==
  [][ (poll_vlc_state_and_overlay /\ vlcState \in PlayingStates
         /\ ~PollRun.op.grace)
        => _last_playback_pos' >= _last_playback_pos ]_vars

====
